---- MODULE Spec2Model ----
(***************************************************************************)
(* Model of the comparable-sales aggregation pipeline of                   *)
(* scripts/orchestrator.py (EnhancedComparableSalesOrchestrator).          *)
(*                                                                         *)
(* Text is modelled by TLA+ strings handled one character at a time        *)
(* (Len, SubSeq, \o).  An optional dictionary entry is a sequence: <<>>    *)
(* when the key is absent (or holds None), <<v>> when it holds v.          *)
(* confidenceScore is counted in hundredths (0.95 is 95).                  *)
(***************************************************************************)
EXTENDS Integers, Sequences, FiniteSets, TLC

VARIABLES pc, input_data, now, years_back, outcome, finished, results,
          all_comps, unique_comps, recent_comps,
          input_file, top_comps, raised, main_results, output, exit_code,
          clock, last_request_time, wait_pc, wake_at, return_times

\* The variables of main (enhanced_comp_scraper.py) and of the last steps of
\* gather_comparable_sales: what opening the input file gives, top_comps, the
\* exception gather_comparable_sales raised (<<>> if none), main's results
\* dictionary (<<>> until it is assigned), the document in the output file
\* (<<>> if none was written) and the exit code of the process (<<>> while it
\* runs).
mainVars == <<input_file, top_comps, raised, main_results, output, exit_code>>

\* The orchestrator's RequestThrottler and the coroutines inside its wait():
\* the reading of time.monotonic(), the attribute last_request_time, where
\* each caller is in wait() ("idle" outside it, "sleeping" in asyncio.sleep),
\* the time at which each sleep is over, and the times at which the last two
\* calls of wait() returned.  Time is counted in quarters of a second.
throttlerVars == <<clock, last_request_time, wait_pc, wake_at, return_times>>

vars == <<pc, input_data, now, years_back, outcome, finished, results,
          all_comps, unique_comps, recent_comps,
          input_file, top_comps, raised, main_results, output, exit_code,
          clock, last_request_time, wait_pc, wake_at, return_times>>

(***************************************************************************)
(* Characters                                                              *)
(***************************************************************************)

\* The printable ASCII characters in code-point order: 32 (space) to 95 (_) and
\* 97 (a) to 126 (~).  Code 96 cannot be written in a TLA+ string.
AsciiLow == " !\"#$%&'()*+,-./0123456789:;<=>?@ABCDEFGHIJKLMNOPQRSTUVWXYZ[\\]^_"
AsciiHigh == "abcdefghijklmnopqrstuvwxyz{|}~"

Ch(s, i) == SubSeq(s, i, i)

\* ord(c) of each character above
OrdTable ==
  [c \in {Ch(AsciiLow, i) : i \in 1..Len(AsciiLow)} \cup {Ch(AsciiHigh, i) : i \in 1..Len(AsciiHigh)} |->
     IF \E i \in 1..Len(AsciiLow) : Ch(AsciiLow, i) = c
     THEN 31 + (CHOOSE i \in 1..Len(AsciiLow) : Ch(AsciiLow, i) = c)
     ELSE 96 + (CHOOSE i \in 1..Len(AsciiHigh) : Ch(AsciiHigh, i) = c)]

\* ord(c) for the characters above, 0 for any other character.
Ord(c) == IF c \in DOMAIN OrdTable THEN OrdTable[c] ELSE 0

IsUpper(c) == Ord(c) \in Ord("A")..Ord("Z")
IsLetter(c) == IsUpper(c) \/ Ord(c) \in Ord("a")..Ord("z")
IsDigit(c) == Ord(c) \in Ord("0")..Ord("9")
\* \w of the re module, on ASCII text
IsWordChar(c) == IsLetter(c) \/ IsDigit(c) \/ c = "_"
\* \s of the re module, on ASCII text
IsSpace(c) == c \in {" ", "\t", "\n", "\r", "\f"}

\* str.lower(), on ASCII text
LowerChar(c) == IF IsUpper(c) THEN Ch(AsciiHigh, Ord(c) - Ord("A") + 1) ELSE c

RECURSIVE Lower(_)
\* str.lower()
Lower(s) == IF s = "" THEN "" ELSE LowerChar(Ch(s, 1)) \o Lower(Tail(s))

\* The character class [.,#-/] : '.', ',' and the range from '#' to '/'.
InSeparatorClass(c) == c = "." \/ c = "," \/ Ord(c) \in Ord("#")..Ord("/")

RECURSIVE ReplaceSeparators(_)
\* re.sub(r'[.,#-/]', ' ', s)
ReplaceSeparators(s) ==
  IF s = "" THEN ""
  ELSE (IF InSeparatorClass(Ch(s, 1)) THEN " " ELSE Ch(s, 1)) \o ReplaceSeparators(Tail(s))

RECURSIVE RemoveWhitespace(_)
\* re.sub(r'\s+', '', s)
RemoveWhitespace(s) ==
  IF s = "" THEN ""
  ELSE (IF IsSpace(Ch(s, 1)) THEN "" ELSE Ch(s, 1)) \o RemoveWhitespace(Tail(s))

\* The alternatives of the street-suffix pattern, in the order of the pattern.
SuffixWords ==
  <<"street", "st", "avenue", "ave", "road", "rd", "boulevard", "blvd", "drive", "dr",
    "lane", "ln", "way", "place", "pl", "court", "ct", "parkway", "pkwy">>

\* \b between positions i-1 and i of s: exactly one of the two is a word character.
WordBoundary(s, i) ==
  LET before == i > 1 /\ IsWordChar(Ch(s, i - 1))
      after == i <= Len(s) /\ IsWordChar(Ch(s, i))
  IN before # after

\* The alternatives that match at position i with \b on both sides.
SuffixMatchesAt(s, i) ==
  {k \in 1..Len(SuffixWords) :
      /\ i + Len(SuffixWords[k]) - 1 <= Len(s)
      /\ SubSeq(s, i, i + Len(SuffixWords[k]) - 1) = SuffixWords[k]
      /\ WordBoundary(s, i)
      /\ WordBoundary(s, i + Len(SuffixWords[k]))}

RECURSIVE RemoveSuffixWordsFrom(_, _)
\* re.sub(r'\b(street|st|...|pkwy)\b', '', s), scanning from position i: the
\* leftmost match, the first alternative that matches there.
RemoveSuffixWordsFrom(s, i) ==
  IF i > Len(s) THEN ""
  ELSE LET m == SuffixMatchesAt(s, i)
       IN IF m # {}
          THEN LET k == CHOOSE k \in m : \A j \in m : k <= j
               IN RemoveSuffixWordsFrom(s, i + Len(SuffixWords[k]))
          ELSE Ch(s, i) \o RemoveSuffixWordsFrom(s, i + 1)

RemoveSuffixWords(s) == RemoveSuffixWordsFrom(s, 1)

\* The normalization without the removal of the street-suffix words.
NormalizeKeepingSuffixes(address) ==
  IF address = <<>> \/ address = <<"">> THEN ""
  ELSE RemoveWhitespace(ReplaceSeparators(Lower(address[1])))

\* _normalize_address_for_dedup; address is <<>> (None) or <<text>>.
NormalizeAddressForDedup(address) ==
  IF address = <<>> \/ address = <<"">> THEN ""
  ELSE RemoveWhitespace(RemoveSuffixWords(ReplaceSeparators(Lower(address[1]))))

(***************************************************************************)
(* Texts the inputs below are made of.  The normalized key and the primary *)
(* source label of each are computed once and looked up afterwards; a text *)
(* outside the tables is computed where it is met.                         *)
(***************************************************************************)

Main1 == <<"123 Main St">>
Main2 == <<"123 Main Street">>
Elm == <<"9 Elm Rd">>
GoogleA == <<"Google Search Result - a">>
GoogleB == <<"Google Search Result - b">>
MassGIS == <<"MassGIS Property Viewer">>

InputAddresses ==
  {<<>>, <<"">>, <<"St.">>, Main1, Main2, Elm, <<"123 MAIN ST.">>, <<"123 Main St.">>,
   <<"9 Elm Road">>, <<"40 Oak Ave">>, <<"40 Oak Avenue">>}

NormTable == [a \in InputAddresses |-> NormalizeAddressForDedup(a)]

\* self._normalize_address_for_dedup(address), by the table
NormKeyOf(address) ==
  IF address \in InputAddresses THEN NormTable[address] ELSE NormalizeAddressForDedup(address)

\* A comparison of the address texts as they are, without normalizing them.
IsSameAddressExact(addr1, addr2) ==
  IF addr1 = <<>> \/ addr1 = <<"">> \/ addr2 = <<>> \/ addr2 = <<"">> THEN FALSE
  ELSE addr1 = addr2

\* _is_same_address
IsSameAddress(addr1, addr2) ==
  IF addr1 = <<>> \/ addr1 = <<"">> \/ addr2 = <<>> \/ addr2 = <<"">> THEN FALSE
  ELSE NormKeyOf(addr1) = NormKeyOf(addr2)

(***************************************************************************)
(* Candidate records                                                       *)
(***************************************************************************)

\* The keys of a record other than source and confidenceScore.
DataFields == {"address", "saleDate", "salePrice", "buildingSizeSqFt", "yearBuilt"}
AllFields == DataFields \cup {"source", "confidenceScore"}

\* comp.get(key, default)
Get(comp, key, default) == IF comp[key] = <<>> THEN default ELSE comp[key][1]

\* sum(1 for v in x.values() if v is not None)
NonNullCount(x) == Cardinality({f \in AllFields : x[f] # <<>>})

(***************************************************************************)
(* _deduplicate_and_enhance                                                *)
(***************************************************************************)

DefaultSortConfidence == 0
DefaultBoostConfidence == 50
BoostPerSource == 10
ConfidenceCap == 95

Min(a, b) == IF a <= b THEN a ELSE b

\* key=lambda x: (x.get('confidenceScore', 0), non-null count)
SortKey(x) == <<Get(x, "confidenceScore", DefaultSortConfidence), NonNullCount(x)>>

\* tuple comparison k1 < k2
KeyLess(k1, k2) == k1[1] < k2[1] \/ (k1[1] = k2[1] /\ k1[2] < k2[2])

\* An insertion that puts x before the elements of equal key: a sort that
\* reverses the order of equal elements.
InsertDescBeforeEquals(sorted, x) ==
  LET notGreater == {i \in 1..Len(sorted) : ~KeyLess(SortKey(x), SortKey(sorted[i]))}
      at == IF notGreater = {} THEN Len(sorted) + 1
            ELSE CHOOSE i \in notGreater : \A j \in notGreater : i <= j
  IN SubSeq(sorted, 1, at - 1) \o <<x>> \o SubSeq(sorted, at, Len(sorted))

\* Where x goes in a list already sorted in descending key order: before the
\* first element of strictly smaller key, so after every element of equal key.
InsertDesc(sorted, x) ==
  LET smaller == {i \in 1..Len(sorted) : KeyLess(SortKey(sorted[i]), SortKey(x))}
      at == IF smaller = {} THEN Len(sorted) + 1
            ELSE CHOOSE i \in smaller : \A j \in smaller : i <= j
  IN SubSeq(sorted, 1, at - 1) \o <<x>> \o SubSeq(sorted, at, Len(sorted))

RECURSIVE SortGroupDesc(_)
\* comp_group.sort(key=..., reverse=True): a stable sort, elements of equal key
\* keep their order in the list.
SortGroupDesc(group) ==
  IF group = <<>> THEN <<>>
  ELSE InsertDesc(SortGroupDesc(SubSeq(group, 1, Len(group) - 1)), group[Len(group)])

\* Positions i of s where " - " starts.
SeparatorPositions(s) == {i \in 1..Len(s) : i + 2 <= Len(s) /\ SubSeq(s, i, i + 2) = " - "}

\* source.split(' - ')[0]
PrimarySource(source) ==
  LET at == SeparatorPositions(source)
  IN IF at = {} THEN source
     ELSE SubSeq(source, 1, (CHOOSE i \in at : \A j \in at : i <= j) - 1)

\* comp.get('source', 'Unknown')
SourceOf(comp) == Get(comp, "source", "Unknown")

RECURSIVE StrLess(_, _)
\* a < b on str: by code point, a proper prefix first
StrLess(a, b) ==
  IF b = "" THEN FALSE
  ELSE IF a = "" THEN TRUE
  ELSE IF Ch(a, 1) # Ch(b, 1) THEN Ord(Ch(a, 1)) < Ord(Ch(b, 1))
  ELSE StrLess(Tail(a), Tail(b))

RECURSIVE SortedStrings(_)
\* sorted(list(S)) for a set of str
SortedStrings(S) ==
  IF S = {} THEN <<>>
  ELSE LET least == CHOOSE a \in S : \A b \in S : a = b \/ StrLess(a, b)
       IN <<least>> \o SortedStrings(S \ {least})

RECURSIVE Join(_, _)
\* sep.join(parts)
Join(sep, parts) ==
  IF parts = <<>> THEN ""
  ELSE IF Len(parts) = 1 THEN parts[1]
  ELSE parts[1] \o sep \o Join(sep, Tail(parts))

\* A loop in which a later record's value replaces the one already held.
FillFromOverwriting(base_comp, other_comp) ==
  [f \in AllFields |->
     IF f \in DataFields /\ other_comp[f] # <<>> THEN other_comp[f] ELSE base_comp[f]]

\* The inner loop over other_comp.items(): a key of the base that is missing or
\* None takes the other record's value when that is not None.
FillFrom(base_comp, other_comp) ==
  [f \in AllFields |->
     IF f \in DataFields /\ base_comp[f] = <<>> THEN other_comp[f] ELSE base_comp[f]]

RECURSIVE FillAll(_, _)
\* for other_comp in comp_group[1:]
FillAll(base_comp, others) ==
  IF others = <<>> THEN base_comp
  ELSE FillAll(FillFrom(base_comp, others[1]), Tail(others))

\* all_sources built from the whole source text, without the split.
AllSourcesUnsplit(comp_group) == {SourceOf(comp_group[i]) : i \in 1..Len(comp_group)}

\* all_sources of a group
AllSources(comp_group) == {PrimarySource(SourceOf(comp_group[i])) : i \in 1..Len(comp_group)}

RECURSIVE LabelsInOrder(_)
\* The primary source labels of a list of records in the order met, each once.
LabelsInOrder(comp_group) ==
  IF comp_group = <<>> THEN <<>>
  ELSE LET front == SubSeq(comp_group, 1, Len(comp_group) - 1)
           label == PrimarySource(SourceOf(comp_group[Len(comp_group)]))
       IN IF label \in AllSources(front) THEN LabelsInOrder(front)
          ELSE LabelsInOrder(front) \o <<label>>

\* The merge of a group with the labels joined in the order met, not sorted.
MergeGroupUnsortedLabels(comp_group) ==
  LET sorted == SortGroupDesc(comp_group)
      filled == FillAll(sorted[1], Tail(sorted))
      all_sources == AllSources(sorted)
      n == Cardinality(all_sources)
  IN [filled EXCEPT
        !["source"] = IF n > 1
                      THEN <<"Multiple Sources - " \o Join(", ", LabelsInOrder(sorted))>>
                      ELSE <<SourceOf(filled)>>,
        !["confidenceScore"] =
            IF n > 1
            THEN <<Min(Get(filled, "confidenceScore", DefaultBoostConfidence)
                         + BoostPerSource * (n - 1), ConfidenceCap)>>
            ELSE filled["confidenceScore"]]

\* The merge of a group with the boost left uncapped.
MergeGroupUncapped(comp_group) ==
  LET sorted == SortGroupDesc(comp_group)
      filled == FillAll(sorted[1], Tail(sorted))
      all_sources == AllSources(sorted)
      n == Cardinality(all_sources)
  IN [filled EXCEPT
        !["source"] = IF n > 1
                      THEN <<"Multiple Sources - " \o Join(", ", SortedStrings(all_sources))>>
                      ELSE <<SourceOf(filled)>>,
        !["confidenceScore"] =
            IF n > 1
            THEN <<Get(filled, "confidenceScore", DefaultBoostConfidence)
                     + BoostPerSource * (n - 1)>>
            ELSE filled["confidenceScore"]]

\* The body of the loop over address_groups.items(): one merged record of a group.
MergeGroup(comp_group) ==
  LET sorted == SortGroupDesc(comp_group)
      filled == FillAll(sorted[1], Tail(sorted))
      all_sources == AllSources(sorted)
      n == Cardinality(all_sources)
  IN [filled EXCEPT
        !["source"] = IF n > 1
                      THEN <<"Multiple Sources - " \o Join(", ", SortedStrings(all_sources))>>
                      ELSE <<SourceOf(filled)>>,
        !["confidenceScore"] =
            IF n > 1
            THEN <<Min(Get(filled, "confidenceScore", DefaultBoostConfidence)
                         + BoostPerSource * (n - 1), ConfidenceCap)>>
            ELSE filled["confidenceScore"]]

\* norm_address of each record of comps
NormKeys(comps) == [i \in 1..Len(comps) |-> NormKeyOf(comps[i]["address"])]

\* address_groups[keys[i]]: the records of that key, in list order
GroupOf(comps, keys, i) ==
  LET RECURSIVE Members(_)
      Members(j) ==
        IF j > Len(comps) THEN <<>>
        ELSE (IF keys[j] = keys[i] THEN <<comps[j]>> ELSE <<>>) \o Members(j + 1)
  IN Members(1)

\* The grouping loop without its "if not norm_address: continue".
DeduplicateKeepingEmptyKeys(comps) ==
  LET keys == NormKeys(comps)
      RECURSIVE MergeGroupsFrom(_)
      MergeGroupsFrom(i) ==
        IF i > Len(comps) THEN <<>>
        ELSE (IF \A j \in 1..(i - 1) : keys[j] # keys[i]
              THEN <<MergeGroup(GroupOf(comps, keys, i))>>
              ELSE <<>>) \o MergeGroupsFrom(i + 1)
  IN MergeGroupsFrom(1)

\* _deduplicate_and_enhance(comps): address_groups keeps its keys in insertion
\* order, so the merged records come in the order of the first record of each
\* non-empty normalized address.
DeduplicateAndEnhance(comps) ==
  LET keys == NormKeys(comps)
      RECURSIVE MergeGroupsFrom(_)
      MergeGroupsFrom(i) ==
        IF i > Len(comps) THEN <<>>
        ELSE (IF keys[i] # "" /\ \A j \in 1..(i - 1) : keys[j] # keys[i]
              THEN <<MergeGroup(GroupOf(comps, keys, i))>>
              ELSE <<>>) \o MergeGroupsFrom(i + 1)
  IN MergeGroupsFrom(1)

(***************************************************************************)
(* _filter_recent_sales                                                    *)
(***************************************************************************)

DefaultYearsBack == 3
DefaultFilterConfidence == 50
UnparsableDateCap == 40
MissingDateCap == 30

RECURSIVE ToInt(_)
\* int(s) for a string of decimal digits
ToInt(s) == IF s = "" THEN 0 ELSE 10 * ToInt(SubSeq(s, 1, Len(s) - 1)) + (Ord(Ch(s, Len(s))) - Ord("0"))

AllDigits(s) == \A i \in 1..Len(s) : IsDigit(Ch(s, i))
InRange(c, lo, hi) == Ord(c) \in Ord(lo)..Ord(hi)

\* Length of the text %m takes at position i: 1[0-2] | 0[1-9] | [1-9]; 0 if none.
MonthLength(s, i) ==
  LET c1 == Ch(s, i)
      c2 == IF i + 1 <= Len(s) THEN Ch(s, i + 1) ELSE ""
  IN IF i > Len(s) THEN 0
     ELSE IF c1 = "1" /\ c2 # "" /\ InRange(c2, "0", "2") THEN 2
     ELSE IF c1 = "0" /\ c2 # "" /\ InRange(c2, "1", "9") THEN 2
     ELSE IF InRange(c1, "1", "9") THEN 1
     ELSE 0

\* Length of the text %d takes at position i:
\* 3[0-1] | [1-2]\d | 0[1-9] | [1-9] | ' '[1-9]; 0 if none.
DayLength(s, i) ==
  LET c1 == Ch(s, i)
      c2 == IF i + 1 <= Len(s) THEN Ch(s, i + 1) ELSE ""
  IN IF i > Len(s) THEN 0
     ELSE IF c1 = "3" /\ c2 # "" /\ InRange(c2, "0", "1") THEN 2
     ELSE IF InRange(c1, "1", "2") /\ c2 # "" /\ IsDigit(c2) THEN 2
     ELSE IF c1 = "0" /\ c2 # "" /\ InRange(c2, "1", "9") THEN 2
     ELSE IF InRange(c1, "1", "9") THEN 1
     ELSE IF c1 = " " /\ c2 # "" /\ InRange(c2, "1", "9") THEN 2
     ELSE 0

IsLeapYear(y) == y % 4 = 0 /\ (y % 100 # 0 \/ y % 400 = 0)

DaysInMonth(y, m) ==
  IF m = 2 THEN (IF IsLeapYear(y) THEN 29 ELSE 28)
  ELSE IF m \in {4, 6, 9, 11} THEN 30 ELSE 31

\* datetime.strptime(s, '%Y-%m-%d'): <<year, month, day>>, or <<>> for ValueError.
ParseDate(s) ==
  IF ~(Len(s) >= 5 /\ AllDigits(SubSeq(s, 1, 4)) /\ Ch(s, 5) = "-") THEN <<>>
  ELSE LET ml == MonthLength(s, 6)
           dash == 6 + ml
           dl == DayLength(s, dash + 1)
           y == ToInt(SubSeq(s, 1, 4))
           m == ToInt(SubSeq(s, 6, 5 + ml))
           dtext == SubSeq(s, dash + 1, dash + dl)
           d == ToInt(IF dl > 0 /\ Ch(dtext, 1) = " " THEN Tail(dtext) ELSE dtext)
       IN IF ml = 0 \/ dash > Len(s) \/ Ch(s, dash) # "-" \/ dl = 0 THEN <<>>
          ELSE IF dash + dl # Len(s) THEN <<>>
          ELSE IF y < 1 \/ d > DaysInMonth(y, m) THEN <<>>
          ELSE <<y, m, d>>

\* The loop body keeping only the years after the cutoff year.
FilterOneStrict(comp, cutoff_year) ==
  LET sale_date_str == comp["saleDate"]
      capped(cap) == [comp EXCEPT !["confidenceScore"] =
                        <<Min(Get(comp, "confidenceScore", DefaultFilterConfidence), cap)>>]
  IN IF sale_date_str # <<>> /\ sale_date_str # <<"">>
     THEN IF ParseDate(sale_date_str[1]) # <<>>
          THEN [comp |-> comp, keep |-> ParseDate(sale_date_str[1])[1] > cutoff_year]
          ELSE [comp |-> capped(UnparsableDateCap), keep |-> TRUE]
     ELSE [comp |-> capped(MissingDateCap), keep |-> TRUE]

\* The loop body setting the score to the cap instead of lowering it to the cap.
FilterOneAssignCap(comp, cutoff_year) ==
  LET sale_date_str == comp["saleDate"]
      capped(cap) == [comp EXCEPT !["confidenceScore"] = <<cap>>]
  IN IF sale_date_str # <<>> /\ sale_date_str # <<"">>
     THEN IF ParseDate(sale_date_str[1]) # <<>>
          THEN [comp |-> comp, keep |-> ParseDate(sale_date_str[1])[1] >= cutoff_year]
          ELSE [comp |-> capped(UnparsableDateCap), keep |-> TRUE]
     ELSE [comp |-> capped(MissingDateCap), keep |-> TRUE]

\* A filter that keeps records without a usable date and leaves their
\* confidenceScore alone.
FilterOneKeepingScore(comp, cutoff_year) ==
  LET sale_date_str == comp["saleDate"]
  IN IF sale_date_str # <<>> /\ sale_date_str # <<"">> /\ ParseDate(sale_date_str[1]) # <<>>
     THEN [comp |-> comp, keep |-> ParseDate(sale_date_str[1])[1] >= cutoff_year]
     ELSE [comp |-> comp, keep |-> TRUE]

\* What the loop body of _filter_recent_sales does to one record: the record as
\* it is left (its confidenceScore may be lowered in place) and whether it is
\* appended to recent_comps.
FilterOne(comp, cutoff_year) ==
  LET sale_date_str == comp["saleDate"]
      capped(cap) == [comp EXCEPT !["confidenceScore"] =
                        <<Min(Get(comp, "confidenceScore", DefaultFilterConfidence), cap)>>]
  IN IF sale_date_str # <<>> /\ sale_date_str # <<"">>
     THEN IF ParseDate(sale_date_str[1]) # <<>>
          THEN [comp |-> comp, keep |-> ParseDate(sale_date_str[1])[1] >= cutoff_year]
          ELSE [comp |-> capped(UnparsableDateCap), keep |-> TRUE]
     ELSE [comp |-> capped(MissingDateCap), keep |-> TRUE]

\* The records of comps as the loop leaves them (the list passed in holds the
\* same objects, so it sees the lowered scores too).
FilterTouched(comps, yb, today) ==
  [i \in 1..Len(comps) |-> FilterOne(comps[i], today[1] - yb).comp]

RECURSIVE KeptFromAppendingTwice(_, _, _)
\* A loop that appends each kept record a second time.
KeptFromAppendingTwice(comps, cutoff_year, i) ==
  IF i > Len(comps) THEN <<>>
  ELSE (IF FilterOne(comps[i], cutoff_year).keep
        THEN <<FilterOne(comps[i], cutoff_year).comp, FilterOne(comps[i], cutoff_year).comp>>
        ELSE <<>>)
       \o KeptFromAppendingTwice(comps, cutoff_year, i + 1)

RECURSIVE KeptFrom(_, _, _)
KeptFrom(comps, cutoff_year, i) ==
  IF i > Len(comps) THEN <<>>
  ELSE (IF FilterOne(comps[i], cutoff_year).keep
        THEN <<FilterOne(comps[i], cutoff_year).comp>> ELSE <<>>)
       \o KeptFrom(comps, cutoff_year, i + 1)

\* _filter_recent_sales(comps, years_back) when datetime.now() is today
FilterRecentSales(comps, yb, today) == KeptFrom(comps, today[1] - yb, 1)

(***************************************************************************)
(* gather_comparable_sales                                                 *)
(***************************************************************************)

\* The four adapter tasks, in the order of the tasks list.
Adapters == 1..4
source_names == <<"MunicipalAssessor", "RegistryOfDeeds", "MassGIS", "SERP">>

\* One of the _get_*_data wrappers around a scraper call that either raises an
\* Exception or returns a list: the wrapper's except clause returns [].
GetAdapterData(scraper_outcome) ==
  IF scraper_outcome.raises
  THEN [exception |-> FALSE, value |-> <<>>]
  ELSE [exception |-> FALSE, value |-> scraper_outcome.value]

RECURSIVE CollectFrom(_, _)
\* The loop over enumerate(results): an exception is logged, a non-empty list
\* extends all_comps, an empty one is logged.
CollectFrom(res, i) ==
  IF i > Len(res) THEN <<>>
  ELSE (IF res[i].exception THEN <<>>
        ELSE IF res[i].value # <<>> THEN res[i].value
        ELSE <<>>) \o CollectFrom(res, i + 1)

RECURSIVE CollectUntilFailure(_, _)
\* A loop that stops at the first source without records.
CollectUntilFailure(res, i) ==
  IF i > Len(res) \/ res[i].exception \/ res[i].value = <<>> THEN <<>>
  ELSE res[i].value \o CollectUntilFailure(res, i + 1)

CollectResultsAborting(res) == CollectUntilFailure(res, 1)

CollectResults(res) == CollectFrom(res, 1)

\* not value, for an optional text
Falsy(text) == text = <<>> \/ text = <<"">>

NoResult == [exception |-> FALSE, value |-> <<>>]

\* The dictionary gather_comparable_sales returns at line 211; it has no
\* error key.
RejectedResult ==
  [comparableSales |-> <<>>, searchSummary |-> "Error: City and County are required.",
   error |-> <<>>]

\* Lines 203-220: read the subject fields, reject a request without city or
\* county (main binds the dictionary returned to results), else create the
\* four tasks.
Start ==
  /\ pc = "start"
  /\ IF Falsy(input_data.subjectCity) \/ Falsy(input_data.subjectCounty)
     THEN pc' = "rejected" /\ main_results' = <<RejectedResult>>
     ELSE pc' = "gather" /\ UNCHANGED main_results
  /\ UNCHANGED <<input_data, now, years_back, outcome, finished, results,
                 all_comps, unique_comps, recent_comps,
                 input_file, top_comps, raised, output, exit_code>>
  /\ UNCHANGED throttlerVars

\* A gather that hands the results over in the order the tasks ended.
AdapterCompletesInArrivalOrder(i) ==
  /\ pc = "gather"
  /\ ~finished[i]
  /\ finished' = [finished EXCEPT ![i] = TRUE]
  /\ results' = [results EXCEPT ![1 + Cardinality({j \in Adapters : finished[j]})] =
                                  GetAdapterData(outcome[i])]
  /\ UNCHANGED <<pc, input_data, now, years_back, outcome, all_comps, unique_comps,
                 recent_comps, mainVars>>
  /\ UNCHANGED throttlerVars

\* One task of asyncio.gather(*tasks, return_exceptions=True) runs to its end;
\* the tasks end in any order and each result is stored at the task's position.
AdapterCompletes(i) ==
  /\ pc = "gather"
  /\ ~finished[i]
  /\ finished' = [finished EXCEPT ![i] = TRUE]
  /\ results' = [results EXCEPT ![i] = GetAdapterData(outcome[i])]
  /\ UNCHANGED <<pc, input_data, now, years_back, outcome, all_comps, unique_comps,
                 recent_comps, mainVars>>
  /\ UNCHANGED throttlerVars

\* A gather that returns as soon as one task has ended.
CollectAfterFirst ==
  /\ pc = "gather"
  /\ \E i \in Adapters : finished[i]
  /\ all_comps' = CollectResults(results)
  /\ pc' = "collected"
  /\ UNCHANGED <<input_data, now, years_back, outcome, finished, results,
                 unique_comps, recent_comps, mainVars>>
  /\ UNCHANGED throttlerVars

\* gather returns once every task has ended; lines 225-235 build all_comps.
Collect ==
  /\ pc = "gather"
  /\ \A i \in Adapters : finished[i]
  /\ all_comps' = CollectResults(results)
  /\ pc' = "collected"
  /\ UNCHANGED <<input_data, now, years_back, outcome, finished, results,
                 unique_comps, recent_comps, mainVars>>
  /\ UNCHANGED throttlerVars

\* Line 237
Deduplicate ==
  /\ pc = "collected"
  /\ unique_comps' = DeduplicateAndEnhance(all_comps)
  /\ pc' = "merged"
  /\ UNCHANGED <<input_data, now, years_back, outcome, finished, results,
                 all_comps, recent_comps, mainVars>>
  /\ UNCHANGED throttlerVars

\* Line 240.  The filter lowers confidenceScore on the record objects of
\* unique_comps themselves.
FilterRecent ==
  /\ pc = "merged"
  /\ recent_comps' = FilterRecentSales(unique_comps, years_back, now)
  /\ unique_comps' = FilterTouched(unique_comps, years_back, now)
  /\ pc' = "filtered"
  /\ UNCHANGED <<input_data, now, years_back, outcome, finished, results, all_comps, mainVars>>
  /\ UNCHANGED throttlerVars

\* Lines 244-246
ExcludeSubject ==
  /\ pc = "filtered"
  /\ recent_comps' =
       IF Falsy(input_data.subjectAddress) THEN recent_comps
       ELSE SelectSeq(recent_comps,
                      LAMBDA c : ~IsSameAddress(<<Get(c, "address", "")>>,
                                                input_data.subjectAddress))
  /\ pc' = "excluded"
  /\ UNCHANGED <<input_data, now, years_back, outcome, finished, results,
                 all_comps, unique_comps, mainVars>>
  /\ UNCHANGED throttlerVars

(***************************************************************************)
(* _sort_by_relevance                                                      *)
(*                                                                         *)
(* A subject number (subjectSizeSqFt, subjectYearBuilt) is <<>> when the   *)
(* key is absent, else <<[kind, num, text]>>: kind "int" with the number   *)
(* in num, or kind "str" with the text in text.                            *)
(***************************************************************************)

IntValue(n) == <<[kind |-> "int", num |-> n, text |-> ""]>>
StrValue(t) == <<[kind |-> "str", num |-> 0, text |-> t]>>

\* Positions of '.' in a text
DotPositions(t) == {i \in 1..Len(t) : Ch(t, i) = "."}

\* t.replace('.', '', 1)
WithoutFirstDot(t) ==
  IF DotPositions(t) = {} THEN t
  ELSE LET at == CHOOSE i \in DotPositions(t) : \A j \in DotPositions(t) : i <= j
       IN SubSeq(t, 1, at - 1) \o SubSeq(t, at + 1, Len(t))

\* str.isdigit() on ASCII text
IsDigitText(t) == t # "" /\ AllDigits(t)

\* int(float(t)) for a text of digits with at most one '.'
IntOfFloatText(t) ==
  IF DotPositions(t) = {} THEN ToInt(t)
  ELSE ToInt(SubSeq(t, 1, (CHOOSE i \in DotPositions(t) : TRUE) - 1))

\* Lines 367-372: subject_size, <<>> for None
SubjectSize(inp) ==
  LET v == inp.subjectSizeSqFt
  IN IF v = <<>> THEN <<>>
     ELSE IF v[1].kind = "int" THEN <<v[1].num>>
     ELSE IF IsDigitText(WithoutFirstDot(v[1].text)) THEN <<IntOfFloatText(v[1].text)>>
     ELSE <<>>

\* Lines 374-379: subject_year, <<>> for None
SubjectYear(inp) ==
  LET v == inp.subjectYearBuilt
  IN IF v = <<>> THEN <<>>
     ELSE IF v[1].kind = "int" THEN <<v[1].num>>
     ELSE IF IsDigitText(v[1].text) THEN <<ToInt(v[1].text)>>
     ELSE <<>>

Max(a, b) == IF a >= b THEN a ELSE b
Abs(a) == IF a >= 0 THEN a ELSE 0 - a

DefaultRelevanceConfidence == 0
MinCompYear == 1800
AgeSpan == 50

\* Line 390 reads years_back, a name that neither relevance_score nor
\* _sort_by_relevance nor the module binds: evaluating it raises NameError.
\* The line is reached for a record whose saleDate is truthy and parses.
NameErrorMessage == "name 'years_back' is not defined"

RelevanceRaises(comp) ==
  /\ ~Falsy(comp["saleDate"])
  /\ ParseDate(comp["saleDate"][1]) # <<>>

\* The scores below are relevance_score times ScoreScale, which keeps them
\* whole numbers: confidenceScore is in hundredths, the size score has the
\* denominator subject_size and the age score the denominator 50.
SizeDenominator(inp) ==
  IF SubjectSize(inp) = <<>> \/ SubjectSize(inp) = <<0>> THEN 1 ELSE Abs(SubjectSize(inp)[1])

ScoreScale(inp) == 1000 * SizeDenominator(inp)

\* Line 382: float(comp.get('confidenceScore', 0.0)) * 0.4
ConfidenceTerm(comp, inp) ==
  4 * Get(comp, "confidenceScore", DefaultRelevanceConfidence) * SizeDenominator(inp)

\* Lines 396-400: 0.15 * max(0, 1 - 2 * abs(subject_size - comp_size) / subject_size)
SizeTerm(comp, inp) ==
  LET subject_size == SubjectSize(inp)
      comp_size == comp["buildingSizeSqFt"]
  IN IF subject_size # <<>> /\ subject_size # <<0>> /\ comp_size # <<>> /\ comp_size[1] > 0
     THEN LET diff == Abs(subject_size[1] - comp_size[1])
          IN IF subject_size[1] > 0
             THEN 150 * Max(0, subject_size[1] - 2 * diff)
             ELSE 150 * (Abs(subject_size[1]) + 2 * diff)
     ELSE 0

\* Lines 403-407: 0.15 * max(0, 1 - abs(subject_year - comp_year) / 50)
AgeTerm(comp, inp) ==
  LET subject_year == SubjectYear(inp)
      comp_year == comp["yearBuilt"]
  IN IF subject_year # <<>> /\ subject_year # <<0>> /\ comp_year # <<>>
          /\ comp_year[1] > MinCompYear
     THEN 3 * Max(0, AgeSpan - Abs(subject_year[1] - comp_year[1])) * SizeDenominator(inp)
     ELSE 0

\* relevance_score(comp) for a record it returns for (no recency term: the
\* branch that adds one raises).
RelevanceScore(comp, inp) == ConfidenceTerm(comp, inp) + SizeTerm(comp, inp) + AgeTerm(comp, inp)

\* x put after every element whose score is at least its own (the elements
\* of sorted are in non-increasing score).
InsertByScore(sorted, x, inp) ==
  LET ahead == {i \in 1..Len(sorted) : RelevanceScore(sorted[i], inp) >= RelevanceScore(x, inp)}
      k == Cardinality(ahead)
  IN SubSeq(sorted, 1, k) \o <<x>> \o SubSeq(sorted, k + 1, Len(sorted))

RECURSIVE SortedByScore(_, _)
\* sorted(comps, key=relevance_score, reverse=True) when no key call raises:
\* descending, equal scores in the order of comps.
SortedByScore(comps, inp) ==
  IF comps = <<>> THEN <<>>
  ELSE InsertByScore(SortedByScore(SubSeq(comps, 1, Len(comps) - 1), inp),
                     comps[Len(comps)], inp)

\* _sort_by_relevance(comps, input_data): the exception it raises, if any,
\* and the list it returns otherwise.
SortByRelevance(comps, inp) ==
  IF \E i \in 1..Len(comps) : RelevanceRaises(comps[i])
  THEN [raises |-> <<NameErrorMessage>>, value |-> <<>>]
  ELSE [raises |-> <<>>, value |-> SortedByScore(comps, inp)]

DefaultNumberOfComps == 5

\* seq[:n]
Take(seq, n) ==
  IF n >= 0 THEN SubSeq(seq, 1, Min(n, Len(seq)))
  ELSE SubSeq(seq, 1, Max(0, Len(seq) + n))

(***************************************************************************)
(* _generate_search_summary                                                *)
(***************************************************************************)

Digits == "0123456789"

RECURSIVE ToStr(_)
\* str(n) for n >= 0
ToStr(n) == IF n < 10 THEN Ch(Digits, n + 1) ELSE ToStr(n \div 10) \o Ch(Digits, (n % 10) + 1)

\* The three digits of n < 1000
ThreeDigits(n) ==
  Ch(Digits, (n \div 100) + 1) \o Ch(Digits, ((n \div 10) % 10) + 1) \o Ch(Digits, (n % 10) + 1)

RECURSIVE WithCommas(_)
\* f"{n:,.0f}" for a whole n >= 0
WithCommas(n) ==
  IF n < 1000 THEN ToStr(n) ELSE WithCommas(n \div 1000) \o "," \o ThreeDigits(n % 1000)

\* strftime('%b')
MonthAbbr ==
  <<"Jan", "Feb", "Mar", "Apr", "May", "Jun", "Jul", "Aug", "Sep", "Oct", "Nov", "Dec">>

\* d.strftime('%b %Y') for a year of four digits
MonthAndYear(d) == MonthAbbr[d[2]] \o " " \o ToStr(d[1])

\* d1 < d2 on dates
DateLess(d1, d2) ==
  \/ d1[1] < d2[1]
  \/ d1[1] = d2[1] /\ d1[2] < d2[2]
  \/ d1[1] = d2[1] /\ d1[2] = d2[2] /\ d1[3] < d2[3]

\* sub in s
Contains(s, sub) ==
  \E i \in 1..(Len(s) - Len(sub) + 1) : SubSeq(s, i, i + Len(sub) - 1) = sub

\* input_data.get(key, 'N/A') for a text field
TextOrNA(inp, key) == IF inp[key] = <<>> THEN "N/A" ELSE inp[key][1]

\* Lines 429-434: sources_set
SummarySources(comp_lists) ==
  {name \in UNION {{PrimarySource(SourceOf(comp_lists[k][i])) : i \in 1..Len(comp_lists[k])}
                     : k \in 1..Len(comp_lists)} :
     ~Contains(name, "Multiple Sources")}

\* Lines 436-439
SourcesSentence(comp_lists) ==
  IF SummarySources(comp_lists) # {}
  THEN "Data sources consulted include: "
         \o Join(", ", SortedStrings(SummarySources(comp_lists))) \o "."
  ELSE "No specific data sources were successfully identified in the final comps."

\* Lines 441-448: the sentence on the range of sale dates, if one is added
DatesSentence(final_comps) ==
  LET sale_dates == SelectSeq([i \in 1..Len(final_comps) |-> final_comps[i]["saleDate"]],
                              LAMBDA d : ~Falsy(d))
      parsed == {ParseDate(sale_dates[i][1]) : i \in 1..Len(sale_dates)}
  IN IF sale_dates = <<>> \/ <<>> \in parsed THEN <<>>
     ELSE LET earliest == CHOOSE d \in parsed : \A e \in parsed : ~DateLess(e, d)
              latest == CHOOSE d \in parsed : \A e \in parsed : ~DateLess(d, e)
          IN <<"Final selected sales range from " \o MonthAndYear(earliest)
                 \o " to " \o MonthAndYear(latest) \o ".">>

\* Lines 450-453: the sentence on the range of prices, if one is added
PricesSentence(final_comps) ==
  LET prices == {final_comps[i]["salePrice"][1] :
                   i \in {j \in 1..Len(final_comps) : final_comps[j]["salePrice"] # <<>>}}
  IN IF prices = {} THEN <<>>
     ELSE LET min_price == CHOOSE x \in prices : \A y \in prices : x <= y
              max_price == CHOOSE x \in prices : \A y \in prices : x >= y
          IN <<"Sale prices in final set range from $" \o WithCommas(min_price)
                 \o " to $" \o WithCommas(max_price) \o ".">>

\* Lines 418-421: the four sentences every summary starts with
SummaryHead(inp, all_raw_comps, deduped_comps, recent_comps_list) ==
  <<"Comparable sales search for " \o TextOrNA(inp, "subjectPropertyType") \o " in "
      \o TextOrNA(inp, "subjectCity") \o ", " \o TextOrNA(inp, "subjectCounty") \o ".",
    "Initial search yielded " \o ToStr(Len(all_raw_comps)) \o " raw entries.",
    "After deduplication & enhancement: " \o ToStr(Len(deduped_comps)) \o " unique properties.",
    "Filtered to " \o ToStr(Len(recent_comps_list)) \o " properties from the last ~3 years.">>

\* _generate_search_summary
GenerateSearchSummary(final_comps, inp, all_raw_comps, deduped_comps, recent_comps_list) ==
  LET head == SummaryHead(inp, all_raw_comps, deduped_comps, recent_comps_list)
  IN IF final_comps = <<>>
     THEN Join(" ", head \o <<"No suitable comparable sales found matching all criteria.">>)
     ELSE Join(" ", head
                 \o <<"Selected top " \o ToStr(Len(final_comps))
                        \o " comparables based on relevance.",
                      SourcesSentence(<<all_raw_comps, deduped_comps, final_comps>>)>>
                 \o DatesSentence(final_comps)
                 \o PricesSentence(final_comps))

(***************************************************************************)
(* The end of gather_comparable_sales, and main                            *)
(***************************************************************************)

gatherVars == <<input_data, now, years_back, outcome, finished, results,
                all_comps, unique_comps, recent_comps>>

\* Line 248: the exception of _sort_by_relevance leaves gather_comparable_sales;
\* otherwise the first numberOfComps records of the sorted list are top_comps.
SortAndTruncate ==
  /\ pc = "excluded"
  /\ LET sorted == SortByRelevance(recent_comps, input_data)
     IN IF sorted.raises # <<>>
        THEN /\ raised' = sorted.raises
             /\ pc' = "raised"
             /\ UNCHANGED top_comps
        ELSE /\ top_comps' = Take(sorted.value,
                                  Get(input_data, "numberOfComps", DefaultNumberOfComps))
             /\ pc' = "ranked"
             /\ UNCHANGED raised
  /\ UNCHANGED <<gatherVars, input_file, main_results, output, exit_code>>
  /\ UNCHANGED throttlerVars

\* Lines 251-254; main binds the dictionary returned to results (line 85).
Return ==
  /\ pc = "ranked"
  /\ main_results' =
       <<[comparableSales |-> top_comps,
          searchSummary |-> GenerateSearchSummary(top_comps, input_data, all_comps,
                                                  unique_comps, recent_comps),
          error |-> <<>>]>>
  /\ pc' = "returned"
  /\ UNCHANGED <<gatherVars, input_file, top_comps, raised, output, exit_code>>
  /\ UNCHANGED throttlerVars

\* main, lines 46-59: a file that cannot be opened or is not JSON ends the
\* process with sys.exit(1).
ReadInput ==
  /\ pc = "read"
  /\ IF input_file = "ok"
     THEN pc' = "validate" /\ UNCHANGED exit_code
     ELSE pc' = "exited" /\ exit_code' = <<1>>
  /\ UNCHANGED <<gatherVars, input_file, top_comps, raised, main_results, output>>
  /\ UNCHANGED throttlerVars

\* A validation that does not ask for subjectCounty.
RequiredFieldsWithoutCounty == {"subjectCity", "subjectPropertyType"}

RequiredFields == {"subjectCity", "subjectCounty", "subjectPropertyType"}

\* error_output of line 65
MissingFieldsOutput ==
  [comparableSales |-> <<>>,
   searchSummary |-> "Error: Input data missing required fields (subjectCity, subjectCounty, subjectPropertyType).",
   error |-> <<TRUE>>]

\* main, lines 62-79: without one of the required keys the error document is
\* written (the write may fail, which is logged) and the process ends with
\* sys.exit(1); otherwise the orchestrator is created and called.
Validate ==
  /\ pc = "validate"
  /\ IF \E k \in RequiredFields : input_data[k] = <<>>
     THEN /\ \E written \in BOOLEAN :
               output' = IF written THEN <<MissingFieldsOutput>> ELSE <<>>
          /\ exit_code' = <<1>>
          /\ pc' = "exited"
     ELSE /\ pc' = "start"
          /\ UNCHANGED <<output, exit_code>>
  /\ UNCHANGED <<gatherVars, input_file, top_comps, raised, main_results>>
  /\ UNCHANGED throttlerVars

CriticalErrorPrefix == "Critical error during comparable sales gathering: "

\* A main that reports an error when the aggregation found nothing.
AfterGatherErrorWhenEmpty ==
  /\ pc \in {"returned", "rejected", "raised"}
  /\ main_results' =
       IF pc = "raised"
       THEN <<[comparableSales |-> <<>>,
               searchSummary |-> CriticalErrorPrefix \o raised[1],
               error |-> <<TRUE>>]>>
       ELSE <<[main_results[1] EXCEPT !.error = <<main_results[1].comparableSales = <<>>>>]>>
  /\ pc' = "write"
  /\ UNCHANGED <<gatherVars, input_file, top_comps, raised, output, exit_code>>
  /\ UNCHANGED throttlerVars

\* main, lines 86-95: after gather_comparable_sales returned, results['error']
\* is set to False; after it raised, results is the critical-error document.
AfterGather ==
  /\ pc \in {"returned", "rejected", "raised"}
  /\ main_results' =
       IF pc = "raised"
       THEN <<[comparableSales |-> <<>>,
               searchSummary |-> CriticalErrorPrefix \o raised[1],
               error |-> <<TRUE>>]>>
       ELSE <<[main_results[1] EXCEPT !.error = <<FALSE>>]>>
  /\ pc' = "write"
  /\ UNCHANGED <<gatherVars, input_file, top_comps, raised, output, exit_code>>
  /\ UNCHANGED throttlerVars

\* main, lines 98-106, and lines 112-113: results is written to the output
\* file (a failure to write is logged), main returns and the process ends
\* with exit code 0.
WriteOutput ==
  /\ pc = "write"
  /\ \E written \in BOOLEAN : output' = IF written THEN main_results ELSE <<>>
  /\ exit_code' = <<0>>
  /\ pc' = "exited"
  /\ UNCHANGED <<gatherVars, input_file, top_comps, raised, main_results>>
  /\ UNCHANGED throttlerVars

(***************************************************************************)
(* RequestThrottler                                                        *)
(***************************************************************************)

\* The coroutines that may call wait() on the one instance, and the last
\* reading of the clock that is explored
MaxCallers == 2
MaxClock == 10

\* RequestThrottler(delay_seconds=0.5), in quarters of a second
delay_seconds == 2

\* __init__: last_request_time = 0; nobody is inside wait().  The aggregation
\* reads none of this state: only wait() does.
ThrottlerNew ==
  /\ last_request_time = 0
  /\ wait_pc = [t \in 1..MaxCallers |-> "idle"]
  /\ wake_at = [t \in 1..MaxCallers |-> 0]
  /\ return_times = <<>>

\* The times of the last two returns, after a return at time t
Returning(t) ==
  IF return_times = <<>> THEN <<t>> ELSE <<return_times[Len(return_times)], t>>

\* A wait() that never sleeps.
WaitWithoutSleep(t) ==
  /\ wait_pc[t] = "idle"
  /\ last_request_time' = clock
  /\ return_times' = Returning(clock)
  /\ UNCHANGED <<clock, wait_pc, wake_at, pc, gatherVars, mainVars>>

\* wait(), lines 23-27 and, when there is no sleep, line 30: caller t reads
\* the clock and last_request_time; with less than delay_seconds since then
\* it starts to sleep for the remainder, else it sets last_request_time and
\* returns.  Nothing else runs between these lines: there is no await.
WaitBegin(t) ==
  /\ wait_pc[t] = "idle"
  /\ LET current_time == clock
         time_since_last_request == current_time - last_request_time
     IN IF time_since_last_request < delay_seconds
        THEN /\ wait_pc' = [wait_pc EXCEPT ![t] = "sleeping"]
             /\ wake_at' = [wake_at EXCEPT
                              ![t] = current_time + (delay_seconds - time_since_last_request)]
             /\ UNCHANGED <<last_request_time, return_times>>
        ELSE /\ last_request_time' = clock
             /\ return_times' = Returning(clock)
             /\ UNCHANGED <<wait_pc, wake_at>>
  /\ UNCHANGED <<clock, pc, gatherVars, mainVars>>

\* wait(), lines 28-30: the sleep of caller t is over (asyncio.sleep lasts at
\* least sleep_duration); it sets last_request_time to the clock and returns.
WaitWake(t) ==
  /\ wait_pc[t] = "sleeping"
  /\ clock >= wake_at[t]
  /\ last_request_time' = clock
  /\ return_times' = Returning(clock)
  /\ wait_pc' = [wait_pc EXCEPT ![t] = "idle"]
  /\ wake_at' = [wake_at EXCEPT ![t] = 0]
  /\ UNCHANGED <<clock, pc, gatherVars, mainVars>>

\* time.monotonic() advances
Tick ==
  /\ clock < MaxClock
  /\ clock' = clock + 1
  /\ UNCHANGED <<last_request_time, wait_pc, wake_at, return_times, pc, gatherVars, mainVars>>

(***************************************************************************)
(* Inputs                                                                  *)
(***************************************************************************)

Rec(a, d, p, b, y, s, c) ==
  [address |-> a, saleDate |-> d, salePrice |-> p, buildingSizeSqFt |-> b,
   yearBuilt |-> y, source |-> s, confidenceScore |-> c]

\* Lists of at most n elements of S
SeqUpTo(S, n) == UNION {[1..k -> S] : k \in 0..n}

\* Records an adapter may return in one call to it.
MaxPerAdapter == 1

\* datetime.now() of the run, as <<year, month, day>>
Today == <<2026, 11, 3>>

AdapterRecords ==
  <<  \* MunicipalAssessor
     {Rec(<<"123 Main St">>, <<"2025-03-10">>, <<500000>>, <<>>, <<>>,
          <<"Vision Government Solutions - Boston Assessor">>, <<90>>),
      Rec(<<"9 Elm Rd">>, <<"2022-12-31">>, <<300000>>, <<>>, <<>>,
          <<"Vision Government Solutions - Boston Assessor">>, <<90>>)},
      \* RegistryOfDeeds
     {Rec(<<"123 Main Street">>, <<"2025-03-10">>, <<510000>>, <<>>, <<>>,
          <<"Suffolk Registry of Deeds - Book 1">>, <<70>>),
      Rec(<<>>, <<"2025-06-01">>, <<250000>>, <<>>, <<>>,
          <<"Suffolk Registry of Deeds - Book 2">>, <<70>>)},
      \* MassGIS
     {Rec(<<"123 MAIN ST.">>, <<>>, <<>>, <<4000>>, <<1985>>,
          <<"MassGIS Property Viewer">>, <<80>>),
      Rec(<<"40 Oak Ave">>, <<"03/10/2025">>, <<>>, <<6000>>, <<2001>>,
          <<"MassGIS Property Viewer">>, <<80>>)},
      \* SERP
     {Rec(<<"9 Elm Road">>, <<"2023-01-15">>, <<>>, <<>>, <<>>,
          <<"Google Search Result - http://a">>, <<60>>),
      Rec(<<"40 Oak Avenue">>, <<>>, <<750000>>, <<>>, <<>>,
          <<"Bing Search Result - http://b">>, <<60>>)} >>

\* What a scraper call may do: raise, or return a list of its records.
ScraperOutcomes(i) ==
  {[raises |-> TRUE, value |-> <<>>]}
    \cup {[raises |-> FALSE, value |-> v] : v \in SeqUpTo(AdapterRecords[i], MaxPerAdapter)}

\* Input documents of gather_comparable_sales
InputDocs ==
  [subjectCity : {<<>>, <<"Boston">>},
   subjectCounty : {<<"">>, <<"Suffolk">>},
   subjectAddress : {<<>>, <<"123 Main St.">>},
   subjectPropertyType : {<<"Office">>},
   numberOfComps : {<<>>},
   subjectSizeSqFt : {IntValue(4000)},
   subjectYearBuilt : {StrValue("1990")}]

ValidInput ==
  [subjectCity |-> <<"Boston">>, subjectCounty |-> <<"Suffolk">>, subjectAddress |-> <<>>,
   subjectPropertyType |-> <<"Office">>, numberOfComps |-> <<>>,
   subjectSizeSqFt |-> <<>>, subjectYearBuilt |-> <<>>]

\* main read the input and has not assigned, written or raised anything
MainIdle ==
  /\ input_file = "ok"
  /\ top_comps = <<>>
  /\ raised = <<>>
  /\ main_results = <<>>
  /\ output = <<>>
  /\ exit_code = <<>>

Init ==
  /\ pc = "start"
  /\ input_data \in InputDocs
  /\ now = Today
  /\ years_back = DefaultYearsBack
  /\ outcome \in {o \in [Adapters -> UNION {ScraperOutcomes(i) : i \in Adapters}] :
                    \A i \in Adapters : o[i] \in ScraperOutcomes(i)}
  /\ finished = [i \in Adapters |-> FALSE]
  /\ results = [i \in Adapters |-> NoResult]
  /\ all_comps = <<>>
  /\ unique_comps = <<>>
  /\ recent_comps = <<>>
  /\ MainIdle
  /\ clock = 0
  /\ ThrottlerNew

Next ==
  \/ Start
  \/ \E i \in Adapters : AdapterCompletes(i)
  \/ Collect
  \/ Deduplicate
  \/ FilterRecent
  \/ ExcludeSubject
  \/ SortAndTruncate
  \/ Return

Spec == Init /\ [][Next]_vars

(***************************************************************************)
(* _deduplicate_and_enhance on its own: the raw-record list is any list of *)
(* at most MaxComps records of a pool, handed over by the first adapter.   *)
(***************************************************************************)

MaxComps == 3
MaxPairComps == 2

NoRaise(list) == [raises |-> FALSE, value |-> list]

\* The state of gather_comparable_sales at line 237 when the first adapter
\* returned all_comps and the others returned nothing.
AtMerge(pool, n) ==
  /\ pc = "collected"
  /\ input_data = ValidInput
  /\ now = Today
  /\ years_back = DefaultYearsBack
  /\ all_comps \in SeqUpTo(pool, n)
  /\ outcome = [i \in Adapters |-> IF i = 1 THEN NoRaise(all_comps) ELSE NoRaise(<<>>)]
  /\ finished = [i \in Adapters |-> TRUE]
  /\ results = [i \in Adapters |-> GetAdapterData(outcome[i])]
  /\ unique_comps = <<>>
  /\ recent_comps = <<>>
  /\ MainIdle
  /\ clock = 0
  /\ ThrottlerNew

NextMerge == Deduplicate

\* Many addresses; each record carries either a price or a year.
KeysPool ==
  [address : {<<>>, <<"St.">>, Main1, Main2, Elm}, saleDate : {<<>>},
   salePrice : {<<100>>}, buildingSizeSqFt : {<<>>}, yearBuilt : {<<>>},
   source : {GoogleA, MassGIS}, confidenceScore : {<<60>>}]
  \cup
  [address : {<<>>, <<"St.">>, Main1, Main2, Elm}, saleDate : {<<>>},
   salePrice : {<<>>}, buildingSizeSqFt : {<<>>}, yearBuilt : {<<1990>>},
   source : {GoogleA, MassGIS}, confidenceScore : {<<60>>}]

\* One property; prices and scores vary, present or not.
FillPool ==
  [address : {Main1, Main2}, saleDate : {<<>>},
   salePrice : {<<>>, <<100>>, <<200>>}, buildingSizeSqFt : {<<>>}, yearBuilt : {<<>>},
   source : {GoogleA}, confidenceScore : {<<>>, <<60>>, <<90>>}]

\* One property; sources and scores vary, present or not.
SourcesPool ==
  [address : {Main1}, saleDate : {<<>>},
   salePrice : {<<100>>}, buildingSizeSqFt : {<<>>}, yearBuilt : {<<>>},
   source : {<<>>, GoogleA, GoogleB, MassGIS}, confidenceScore : {<<>>, <<0>>, <<90>>, <<100>>}]

\* One property, equal scores; addresses, sources, prices and years vary.
PairPool ==
  [address : {Main1, Main2}, saleDate : {<<>>},
   salePrice : {<<>>, <<100>>, <<200>>}, buildingSizeSqFt : {<<>>}, yearBuilt : {<<>>, <<1990>>},
   source : {GoogleA, GoogleB, MassGIS}, confidenceScore : {<<60>>}]

InitMergeKeys == AtMerge(KeysPool, MaxComps)
SpecMergeKeys == InitMergeKeys /\ [][NextMerge]_vars

InitMergeFill == AtMerge(FillPool, MaxComps)
SpecMergeFill == InitMergeFill /\ [][NextMerge]_vars

InitMergeSources == AtMerge(SourcesPool, MaxComps)
SpecMergeSources == InitMergeSources /\ [][NextMerge]_vars

InitMergePair == AtMerge(PairPool, MaxPairComps)
SpecMergePair == InitMergePair /\ [][NextMerge]_vars

(***************************************************************************)
(* _filter_recent_sales on its own: any list of at most MaxFilterComps     *)
(* records, any years_back of YearsBackValues.                             *)
(***************************************************************************)

MaxFilterComps == 2

YearsBackValues == {1, 3}

FilterPool ==
  [address : {Main1}, salePrice : {<<100>>}, buildingSizeSqFt : {<<>>}, yearBuilt : {<<>>},
   source : {MassGIS},
   saleDate : {<<>>, <<"">>, <<"06/15/2024">>, <<"2023-02-30">>, <<"2022-12-31">>,
               <<"2023-01-01">>, <<"2024-6-5">>, <<"2025-12-31">>},
   confidenceScore : {<<>>, <<20>>, <<35>>, <<100>>}]

InitFilter ==
  /\ pc = "merged"
  /\ input_data = ValidInput
  /\ now = Today
  /\ years_back \in YearsBackValues
  /\ unique_comps \in SeqUpTo(FilterPool, MaxFilterComps)
  /\ all_comps = <<>>
  /\ outcome = [i \in Adapters |-> NoRaise(<<>>)]
  /\ finished = [i \in Adapters |-> TRUE]
  /\ results = [i \in Adapters |-> NoResult]
  /\ recent_comps = <<>>
  /\ MainIdle
  /\ clock = 0
  /\ ThrottlerNew

NextFilter == FilterRecent

SpecFilter == InitFilter /\ [][NextFilter]_vars
(***************************************************************************)
(* _sort_by_relevance and the truncation on their own: any list of at most *)
(* MaxSortComps records of a pool, several subjects.                       *)
(***************************************************************************)

MaxSortComps == 2

SortPool ==
  [address : {Main1, Elm}, salePrice : {<<100>>}, yearBuilt : {<<1985>>},
   source : {MassGIS},
   saleDate : {<<>>, <<"03/10/2025">>, <<"2025-03-10">>},
   buildingSizeSqFt : {<<>>, <<5000>>},
   confidenceScore : {<<>>, <<60>>}]

SortInputDocs ==
  {[ValidInput EXCEPT !.numberOfComps = n, !.subjectSizeSqFt = size,
                      !.subjectYearBuilt = StrValue("1990")] :
     n \in {<<>>, <<1>>}, size \in {<<>>, StrValue("4000.5"), IntValue(0 - 4000)}}

InitSort ==
  /\ pc = "excluded"
  /\ input_data \in SortInputDocs
  /\ now = Today
  /\ years_back = DefaultYearsBack
  /\ recent_comps \in SeqUpTo(SortPool, MaxSortComps)
  /\ unique_comps = recent_comps
  /\ all_comps = recent_comps
  /\ outcome = [i \in Adapters |-> IF i = 3 THEN NoRaise(all_comps) ELSE NoRaise(<<>>)]
  /\ finished = [i \in Adapters |-> TRUE]
  /\ results = [i \in Adapters |-> GetAdapterData(outcome[i])]
  /\ MainIdle
  /\ clock = 0
  /\ ThrottlerNew

NextSort == SortAndTruncate

SpecSort == InitSort /\ [][NextSort]_vars

(***************************************************************************)
(* main as a whole: reading the input, validation, the aggregation, the    *)
(* output file and the exit code.                                          *)
(***************************************************************************)

\* A complete request
BaseInput ==
  [ValidInput EXCEPT !.subjectSizeSqFt = IntValue(4000), !.subjectYearBuilt = StrValue("1990")]

\* Complete requests, requests without one of the required keys, and requests
\* whose city or county is the empty text.
MainInputDocs ==
  {[BaseInput EXCEPT !.subjectAddress = a, !.numberOfComps = n] :
     a \in {<<>>, <<"123 Main St.">>}, n \in {<<>>, <<1>>}}
  \cup {[BaseInput EXCEPT ![k] = <<>>] :
           k \in {"subjectCity", "subjectCounty", "subjectPropertyType"}}
  \cup {[BaseInput EXCEPT ![k] = <<"">>] : k \in {"subjectCity", "subjectCounty"}}

InputFiles == {"ok", "missing", "invalid"}

InitMain ==
  /\ pc = "read"
  /\ input_file \in InputFiles
  /\ input_data \in (IF input_file = "ok" THEN MainInputDocs ELSE {BaseInput})
  /\ now = Today
  /\ years_back = DefaultYearsBack
  /\ outcome \in {o \in [Adapters -> UNION {ScraperOutcomes(i) : i \in Adapters}] :
                    \A i \in Adapters : o[i] \in ScraperOutcomes(i)}
  /\ finished = [i \in Adapters |-> FALSE]
  /\ results = [i \in Adapters |-> NoResult]
  /\ all_comps = <<>>
  /\ unique_comps = <<>>
  /\ recent_comps = <<>>
  /\ top_comps = <<>>
  /\ raised = <<>>
  /\ main_results = <<>>
  /\ output = <<>>
  /\ exit_code = <<>>
  /\ clock = 0
  /\ ThrottlerNew

NextMain ==
  \/ ReadInput
  \/ Validate
  \/ Start
  \/ \E i \in Adapters : AdapterCompletes(i)
  \/ Collect
  \/ Deduplicate
  \/ FilterRecent
  \/ ExcludeSubject
  \/ SortAndTruncate
  \/ Return
  \/ AfterGather
  \/ WriteOutput

SpecMain == InitMain /\ [][NextMain]_vars

(***************************************************************************)
(* _normalize_address_for_dedup on its own: one raw record whose address   *)
(* is absent or made of at most MaxTokens pieces of text.                  *)
(***************************************************************************)

MaxTokens == 2

AddressTokens ==
  <<"12", " ", "Main", "St", "street", "Rd", ".", ",", "#", "-", "/", "&", "'", "(", "+", "_">>

RECURSIVE Concat(_)
Concat(parts) == IF parts = <<>> THEN "" ELSE parts[1] \o Concat(Tail(parts))

TokenAddresses ==
  {<<>>} \cup {<<Concat([i \in DOMAIN t |-> AddressTokens[t[i]]])>> :
                 t \in SeqUpTo(DOMAIN AddressTokens, MaxTokens)}

NormalizePool ==
  [address : TokenAddresses, saleDate : {<<>>}, salePrice : {<<100>>},
   buildingSizeSqFt : {<<>>}, yearBuilt : {<<>>}, source : {MassGIS},
   confidenceScore : {<<60>>}]

InitNormalize == AtMerge(NormalizePool, 1)
SpecNormalize == InitNormalize /\ [][NextMerge]_vars

(***************************************************************************)
(* Properties                                                              *)
(***************************************************************************)

Range(f) == {f[i] : i \in DOMAIN f}
Collected == pc \notin {"start", "gather", "rejected"}
Merged == pc = "merged"

\* What the scraper of adapter i handed over: nothing when it raised.
Returned(i) == IF outcome[i].raises THEN <<>> ELSE outcome[i].value

\* C1: whichever adapters raise, every other adapter still runs to its end, the
\* fan-out completes, and the raw-record list is the concatenation, in adapter
\* order, of the lists returned by the adapters that did not raise.
C1_FailuresIsolated ==
  /\ pc = "gather" =>
       /\ \A i \in Adapters : ~finished[i] => ENABLED AdapterCompletes(i)
       /\ (\A i \in Adapters : finished[i]) => ENABLED Collect
  /\ Collected =>
       all_comps = Returned(1) \o Returned(2) \o Returned(3) \o Returned(4)

\* Adapters 1 and 3 raised, 2 and 4 returned records, and the raw list holds
\* exactly the records of 2 and 4.
C1_Witness ==
  /\ pc = "collected"
  /\ outcome[1].raises /\ outcome[3].raises
  /\ ~outcome[2].raises /\ ~outcome[4].raises
  /\ outcome[2].value # <<>> /\ outcome[4].value # <<>>
  /\ all_comps = outcome[2].value \o outcome[4].value

\* The non-empty normalized addresses of the raw records
InputKeys == {NormKeyOf(all_comps[i]["address"]) : i \in 1..Len(all_comps)} \ {""}

HasKey(comp) == NormKeyOf(comp["address"]) # ""

\* C2: the merge returns exactly one record per distinct non-empty normalized
\* address of its input, no two of them with the same normalized address, and
\* the records without such an address contribute nothing: the result is the
\* one the input without them gives.
C2_OneRecordPerKey ==
  Merged =>
    /\ Len(unique_comps) = Cardinality(InputKeys)
    /\ {NormKeyOf(unique_comps[k]["address"]) : k \in 1..Len(unique_comps)} = InputKeys
    /\ \A k1, k2 \in 1..Len(unique_comps) :
         k1 # k2 => NormKeyOf(unique_comps[k1]["address"]) # NormKeyOf(unique_comps[k2]["address"])
    /\ unique_comps = DeduplicateAndEnhance(SelectSeq(all_comps, HasKey))

\* Three raw records, one whose address normalizes to the empty string and two
\* whose different addresses share a key, merged into one record.
C2_Witness ==
  /\ Merged
  /\ Len(all_comps) = 3
  /\ \E i, j, k \in 1..3 :
       /\ all_comps[i]["address"] = <<"St.">>
       /\ all_comps[j]["address"] = Main1
       /\ all_comps[k]["address"] = Main2
  /\ Len(unique_comps) = 1
\* The positions in the raw list of the records merged into m
GroupIdx(m) ==
  {i \in 1..Len(all_comps) : NormKeyOf(all_comps[i]["address"]) = NormKeyOf(m["address"])}

\* The records of those positions, in list order
GroupRecords(m) ==
  SelectSeq(all_comps, LAMBDA c : NormKeyOf(c["address"]) = NormKeyOf(m["address"]))

\* Raw record i comes before raw record j in the descending (confidenceScore,
\* non-null field count) order, records equal on the pair in list order.
Precedes(i, j) ==
  \/ KeyLess(SortKey(all_comps[j]), SortKey(all_comps[i]))
  \/ SortKey(all_comps[i]) = SortKey(all_comps[j]) /\ i < j

FirstIn(S) == CHOOSE i \in S : \A j \in S \ {i} : Precedes(i, j)

\* The distinct primary source labels of the records merged into m
Labels(m) == {PrimarySource(SourceOf(all_comps[i])) : i \in GroupIdx(m)}

\* C3: in every merged record, every field other than source and
\* confidenceScore holds the value of the first record of the group, in the
\* group's descending order, whose value for the field is not null (and is null
\* when no record of the group has one).
C3_FirstNonNullWins ==
  Merged =>
    \A k \in 1..Len(unique_comps) : \A f \in DataFields :
      LET m == unique_comps[k]
          holders == {i \in GroupIdx(m) : all_comps[i][f] # <<>>}
      IN m[f] = IF holders = {} THEN <<>> ELSE all_comps[FirstIn(holders)][f]

\* A group of three: the seed has no price, the next two have different prices,
\* and the merged record has the price of the second.
C3_Witness ==
  /\ Merged
  /\ Len(all_comps) = 3 /\ Len(unique_comps) = 1
  /\ \E i, j, k \in 1..3 :
       /\ Precedes(i, j) /\ Precedes(j, k)
       /\ all_comps[i]["salePrice"] = <<>>
       /\ all_comps[j]["salePrice"] # <<>> /\ all_comps[k]["salePrice"] # <<>>
       /\ all_comps[j]["salePrice"] # all_comps[k]["salePrice"]
       /\ unique_comps[1]["salePrice"] = all_comps[j]["salePrice"]

\* C4: the seed of every group is the record with the greatest pair
\* (confidenceScore, non-null field count), the earliest in the input among
\* those equal on the pair; the merged record is built on it: it has every
\* non-null value of the seed, and the seed's confidenceScore when the group
\* has one source label.
C4_SeedIsGreatestEarliest ==
  Merged =>
    \A k \in 1..Len(unique_comps) :
      LET m == unique_comps[k]
          seed == all_comps[FirstIn(GroupIdx(m))]
      IN /\ SortGroupDesc(GroupRecords(m))[1] = seed
         /\ \A f \in DataFields : seed[f] # <<>> => m[f] = seed[f]
         /\ Cardinality(Labels(m)) = 1 => m["confidenceScore"] = seed["confidenceScore"]

\* The first raw record has a smaller pair than the other two, which are equal
\* on the pair and differ in address; the merged record has the address of the
\* second raw record.
C4_Witness ==
  /\ Merged
  /\ Len(all_comps) = 3 /\ Len(unique_comps) = 1
  /\ KeyLess(SortKey(all_comps[1]), SortKey(all_comps[2]))
  /\ SortKey(all_comps[2]) = SortKey(all_comps[3])
  /\ all_comps[2]["address"] # all_comps[3]["address"]
  /\ unique_comps[1]["address"] = all_comps[2]["address"]

\* C5: with n the number of distinct primary source labels of a group: if
\* n > 1 the merged source is 'Multiple Sources - ' and the sorted labels joined
\* by ', ' and the merged confidenceScore is min(seed score + 0.1 (n - 1), 0.95);
\* if n = 1 the merged source and confidenceScore are the seed's.  A record
\* without source reads as 'Unknown', a seed without confidenceScore as 0.5 in
\* the boost.
C5_SourceAndBoost ==
  Merged =>
    \A k \in 1..Len(unique_comps) :
      LET m == unique_comps[k]
          seed == all_comps[FirstIn(GroupIdx(m))]
          n == Cardinality(Labels(m))
      IN IF n > 1
         THEN /\ m["source"] = <<"Multiple Sources - " \o Join(", ", SortedStrings(Labels(m)))>>
              /\ m["confidenceScore"] =
                   <<Min(Get(seed, "confidenceScore", DefaultBoostConfidence)
                           + BoostPerSource * (n - 1), ConfidenceCap)>>
         ELSE /\ m["source"] = <<SourceOf(seed)>>
              /\ m["confidenceScore"] = seed["confidenceScore"]

\* A group of three records, two of which share the label 'Google Search
\* Result': n is 2, and the seed's 0.9 is boosted by 0.1 and capped at 0.95.
C5_Witness ==
  /\ Merged
  /\ Len(all_comps) = 3 /\ Len(unique_comps) = 1
  /\ {all_comps[i]["source"] : i \in 1..3} = {GoogleA, GoogleB, MassGIS}
  /\ \A i \in 1..3 : all_comps[i]["confidenceScore"] \in {<<0>>, <<90>>}
  /\ unique_comps[1]["source"] =
       <<"Multiple Sources - Google Search Result, MassGIS Property Viewer">>
  /\ unique_comps[1]["confidenceScore"] = <<95>>

\* Every raw record has a confidenceScore (in the pools, one of [0, 1])
AllScored == \A i \in 1..Len(all_comps) : all_comps[i]["confidenceScore"] # <<>>

\* C6, as claimed: for raw scores in [0, 1], every merged record has
\* 0 <= confidenceScore <= 0.95, boosted or not.
C6_EveryScoreAtMostCap ==
  Merged /\ AllScored =>
    \A k \in 1..Len(unique_comps) :
      /\ unique_comps[k]["confidenceScore"] # <<>>
      /\ unique_comps[k]["confidenceScore"][1] \in 0..ConfidenceCap

\* C6, amended: for raw scores in [0, 1], every merged record has a
\* confidenceScore in [0, 1]; it is at most 0.95 when the group got the
\* multi-source boost, and is the seed's own score, whatever that is, when the
\* group has a single source label.
C6_BoostedScoreAtMostCap ==
  Merged /\ AllScored =>
    \A k \in 1..Len(unique_comps) :
      LET m == unique_comps[k]
          seed == all_comps[FirstIn(GroupIdx(m))]
      IN /\ m["confidenceScore"] # <<>>
         /\ m["confidenceScore"][1] \in 0..100
         /\ Cardinality(Labels(m)) > 1 => m["confidenceScore"][1] <= ConfidenceCap
         /\ Cardinality(Labels(m)) = 1 => m["confidenceScore"] = seed["confidenceScore"]

\* A group of two labels whose seed has 1.0: the boost caps the score at 0.95.
C6_Witness ==
  /\ Merged /\ AllScored
  /\ Len(unique_comps) = 1
  /\ Cardinality(Labels(unique_comps[1])) = 2
  /\ \E i \in 1..Len(all_comps) : all_comps[i]["confidenceScore"] = <<100>>
  /\ unique_comps[1]["confidenceScore"] = <<ConfidenceCap>>

OnlyPrice(comp) == comp["salePrice"] # <<>> /\ comp["yearBuilt"] = <<>>
OnlyYear(comp) == comp["salePrice"] = <<>> /\ comp["yearBuilt"] # <<>>

\* Two raw records, '123 Main St' and '123 Main Street', from two different
\* primary sources, both with score 0.6, one with only a price and the other
\* with only a year.
ScenarioA ==
  /\ Len(all_comps) = 2
  /\ \E i, j \in 1..2 :
       /\ all_comps[i]["address"] = <<"123 Main St">>
       /\ all_comps[j]["address"] = <<"123 Main Street">>
       /\ \/ (OnlyPrice(all_comps[i]) /\ OnlyYear(all_comps[j]))
          \/ (OnlyYear(all_comps[i]) /\ OnlyPrice(all_comps[j]))
  /\ PrimarySource(SourceOf(all_comps[1])) # PrimarySource(SourceOf(all_comps[2]))
  /\ \A i \in 1..2 : all_comps[i]["confidenceScore"] = <<60>>

StartsWith(s, prefix) == Len(s) >= Len(prefix) /\ SubSeq(s, 1, Len(prefix)) = prefix

\* C7 (Scenario A): the merge of those two records is one record with both
\* salePrice and yearBuilt, a source that starts with 'Multiple Sources - ' and
\* confidenceScore 0.7.
C7_ScenarioA ==
  Merged /\ ScenarioA =>
    /\ Len(unique_comps) = 1
    /\ unique_comps[1]["salePrice"] # <<>>
    /\ unique_comps[1]["yearBuilt"] # <<>>
    /\ StartsWith(unique_comps[1]["source"][1], "Multiple Sources - ")
    /\ unique_comps[1]["confidenceScore"] = <<70>>

\* The scenario, merged.
C7_Witness ==
  /\ Merged /\ ScenarioA
  /\ unique_comps[1]["salePrice"] = <<100>>
  /\ unique_comps[1]["yearBuilt"] = <<1990>>
  /\ unique_comps[1]["confidenceScore"] = <<70>>

\* Pairs i < j of raw records that make up a whole merge group and are equal
\* in confidenceScore and in the number of non-null fields.
TiedPairs ==
  {p \in (1..Len(all_comps)) \X (1..Len(all_comps)) :
     /\ p[1] < p[2]
     /\ NormKeyOf(all_comps[p[1]]["address"]) # ""
     /\ GroupIdx(all_comps[p[1]]) = {p[1], p[2]}
     /\ all_comps[p[1]]["confidenceScore"] = all_comps[p[2]]["confidenceScore"]
     /\ NonNullCount(all_comps[p[1]]) = NonNullCount(all_comps[p[2]])}

\* The raw list with the records at the two positions exchanged
Swapped(p) == [all_comps EXCEPT ![p[1]] = all_comps[p[2]], ![p[2]] = all_comps[p[1]]]

\* The merged record of the group of comp in a merge output
MergedOf(out, comp) ==
  out[CHOOSE k \in 1..Len(out) : NormKeyOf(out[k]["address"]) = NormKeyOf(comp["address"])]

\* The seed of the group of comp in a raw list
SeedIn(comps, comp) ==
  SortGroupDesc(SelectSeq(comps, LAMBDA c : NormKeyOf(c["address"]) = NormKeyOf(comp["address"])))[1]

\* The two records do not both hold different non-null values in field f
NoConflict(a, b, f) == ~(a[f] # <<>> /\ b[f] # <<>> /\ a[f] # b[f])

\* What C8 says of the seed, the confidenceScore and the fields
SwapKeepsScoreAndFields(p) ==
  LET a == all_comps[p[1]]
      b == all_comps[p[2]]
      m1 == MergedOf(unique_comps, a)
      m2 == MergedOf(DeduplicateAndEnhance(Swapped(p)), a)
  IN /\ SeedIn(all_comps, a) = a
     /\ SeedIn(Swapped(p), a) = b
     /\ m1["confidenceScore"] = m2["confidenceScore"]
     /\ \A f \in DataFields : NoConflict(a, b, f) => m1[f] = m2[f]

\* C8, as claimed: exchanging two such records exchanges the seed and leaves
\* the merged source, the merged confidenceScore and every field in which the
\* two do not conflict as they were.
C8_SwapKeepsSource ==
  Merged =>
    \A p \in TiedPairs :
      /\ SwapKeepsScoreAndFields(p)
      /\ MergedOf(unique_comps, all_comps[p[1]])["source"]
           = MergedOf(DeduplicateAndEnhance(Swapped(p)), all_comps[p[1]])["source"]

\* C8, amended: exchanging two such records exchanges the seed and leaves the
\* merged confidenceScore and every field in which the two do not conflict as
\* they were; the merged source stays the same when the two have different
\* primary source labels or the same source text, and when they share one label
\* the merged source is the source of the seed, so it follows the exchange.
C8_SwapKeepsSourceOfTwoLabels ==
  Merged =>
    \A p \in TiedPairs :
      LET a == all_comps[p[1]]
          b == all_comps[p[2]]
          m1 == MergedOf(unique_comps, a)
          m2 == MergedOf(DeduplicateAndEnhance(Swapped(p)), a)
      IN /\ SwapKeepsScoreAndFields(p)
         /\ IF PrimarySource(SourceOf(a)) # PrimarySource(SourceOf(b))
            THEN m1["source"] = m2["source"]
            ELSE m1["source"] = <<SourceOf(a)>> /\ m2["source"] = <<SourceOf(b)>>

\* Two records of one property from two sources, equal in score and in field
\* count, one with a price and the other with a year, under different
\* addresses: the merged record has the price, the year and the first one's
\* address; exchanged, the address of the other.
C8_Witness ==
  /\ Merged
  /\ Len(all_comps) = 2
  /\ <<1, 2>> \in TiedPairs
  /\ PrimarySource(SourceOf(all_comps[1])) # PrimarySource(SourceOf(all_comps[2]))
  /\ OnlyPrice(all_comps[1]) /\ OnlyYear(all_comps[2])
  /\ all_comps[1]["address"] # all_comps[2]["address"]
  /\ unique_comps[1]["salePrice"] = all_comps[1]["salePrice"]
  /\ unique_comps[1]["yearBuilt"] = all_comps[2]["yearBuilt"]
  /\ unique_comps[1]["address"] = all_comps[1]["address"]
  /\ DeduplicateAndEnhance(Swapped(<<1, 2>>))[1]["address"] = all_comps[2]["address"]
\* The step in which _filter_recent_sales runs
FilterStep == pc = "merged" /\ pc' = "filtered"

\* The record's saleDate is there and strptime('%Y-%m-%d') accepts it
Dated(comp) ==
  /\ comp["saleDate"] # <<>>
  /\ ParseDate(comp["saleDate"][1]) # <<>>

\* The year of a dated record's saleDate
YearOf(comp) == ParseDate(comp["saleDate"][1])[1]

Undated(comp) == ~Dated(comp)

\* C9: the filter keeps, unchanged and in order, every record whose saleDate
\* parses with a year >= current year - years_back, and no record whose
\* saleDate parses with a year <= current year - years_back - 1 is in its result.
C9_RecencyBoundary ==
  [][FilterStep =>
       LET cutoff == now[1] - years_back
           Recent(c) == Dated(c) /\ YearOf(c) >= cutoff
       IN /\ SelectSeq(recent_comps', Dated) = SelectSeq(unique_comps, Recent)
          /\ \A i \in 1..Len(unique_comps) :
               (Dated(unique_comps[i]) /\ YearOf(unique_comps[i]) <= cutoff - 1)
                 => unique_comps[i] \notin Range(recent_comps')]_vars

\* The filter has run on a record dated in the cutoff year, which it kept, and
\* on one dated in the year before, which it dropped.
C9_Witness ==
  /\ pc = "filtered"
  /\ Len(unique_comps) = 2 /\ Len(recent_comps) = 1
  /\ \A i \in 1..2 : Dated(unique_comps[i])
  /\ YearOf(recent_comps[1]) = now[1] - years_back
  /\ \E i \in 1..2 : YearOf(unique_comps[i]) = now[1] - years_back - 1

\* C10: the filter keeps, in order and with every other field unchanged, each
\* record whose saleDate is absent or does not parse; afterwards such a record
\* has a confidenceScore of at most 0.3 if the saleDate is absent and at most
\* 0.4 if it is present but does not parse, and never more than the score it
\* came with.
C10_UndatedKeptAndCapped ==
  [][FilterStep =>
       LET before == SelectSeq(unique_comps, Undated)
           after == SelectSeq(recent_comps', Undated)
       IN /\ Len(after) = Len(before)
          /\ \A k \in 1..Len(before) :
               /\ \A f \in DataFields \cup {"source"} : after[k][f] = before[k][f]
               /\ after[k]["confidenceScore"] # <<>>
               /\ before[k]["saleDate"] = <<>>
                    => after[k]["confidenceScore"][1] <= MissingDateCap
               /\ before[k]["saleDate"] # <<>>
                    => after[k]["confidenceScore"][1] <= UnparsableDateCap
               /\ before[k]["confidenceScore"] # <<>>
                    => after[k]["confidenceScore"][1] <= before[k]["confidenceScore"][1]]_vars

\* The filter has kept a record without a saleDate, now scored 0.3, and one
\* whose saleDate does not parse, now scored 0.4: scores no record came with.
C10_Witness ==
  /\ pc = "filtered"
  /\ Len(unique_comps) = 2 /\ Len(recent_comps) = 2
  /\ recent_comps[1]["saleDate"] = <<>>
  /\ recent_comps[1]["confidenceScore"] = <<MissingDateCap>>
  /\ recent_comps[2]["saleDate"] # <<>> /\ Undated(recent_comps[2])
  /\ recent_comps[2]["saleDate"] # <<"">>
  /\ recent_comps[2]["confidenceScore"] = <<UnparsableDateCap>>

\* _sort_by_relevance has ended, by returning or by raising
SortEnded == pc \in {"ranked", "raised"}

\* out is a permutation of in in non-increasing relevance score in which
\* records of equal score keep the order they have in in.
StableDescendingPermutation(out, in, inp) ==
  /\ Len(out) = Len(in)
  /\ \E f \in [1..Len(in) -> 1..Len(in)] :
       /\ \A i, j \in 1..Len(in) : i # j => f[i] # f[j]
       /\ \A i \in 1..Len(in) : out[i] = in[f[i]]
       /\ \A i, j \in 1..Len(in) :
            i < j => \/ RelevanceScore(out[i], inp) > RelevanceScore(out[j], inp)
                     \/ /\ RelevanceScore(out[i], inp) = RelevanceScore(out[j], inp)
                        /\ f[i] < f[j]

\* C11, as claimed: _sort_by_relevance returns a permutation of its input in
\* non-increasing relevance score, records of equal score in input order
\* (seen in top_comps when numberOfComps, absent, truncates nothing).
C11_SortReturnsStablePermutation ==
  (SortEnded /\ input_data.numberOfComps = <<>>) =>
    /\ pc = "ranked"
    /\ StableDescendingPermutation(top_comps, recent_comps, input_data)

\* Some record handed to _sort_by_relevance has a saleDate that parses
SomeDatedRecord == \E i \in 1..Len(recent_comps) : RelevanceRaises(recent_comps[i])

\* C12, as claimed: for records whose saleDate parses _sort_by_relevance
\* completes (and their score then includes the recency term of 3 x 365 days).
\* The score of such a record is never produced, so the formula states the
\* completion the claim starts from.
C12_SortCompletesOnDatedRecords ==
  (SortEnded /\ SomeDatedRecord) => (pc = "ranked" /\ raised = <<>>)

\* The run ended and the input passed main's validation
Validated == input_file = "ok" /\ \A k \in RequiredFields : input_data[k] # <<>>

\* The run ended with a document in the output file
Written == pc = "exited" /\ output # <<>>

requested == Get(input_data, "numberOfComps", DefaultNumberOfComps)

\* C13, as claimed: for a request that passes validation the output has at
\* most numberOfComps (default 5) records in comparableSales, and none only if
\* no adapter returned a record or merge, recency filter and subject exclusion
\* left none.
C13_SizeWithinRequest ==
  (Written /\ Validated) =>
    /\ Len(output[1].comparableSales) <= requested
    /\ Len(output[1].comparableSales) = 0 => (all_comps = <<>> \/ recent_comps = <<>>)

\* C14, as claimed: when more records qualify (unique, recent, not the
\* subject) than numberOfComps, comparableSales has exactly numberOfComps
\* records in non-increasing relevance score, none scored below a qualifying
\* record left out.
C14_TopRequestedByScore ==
  (Written /\ Validated /\ Len(recent_comps) > requested) =>
    LET sales == output[1].comparableSales
    IN /\ Len(sales) = requested
       /\ \A i, j \in 1..Len(sales) :
            i < j => RelevanceScore(sales[i], input_data) >= RelevanceScore(sales[j], input_data)
       /\ \A i \in 1..Len(sales) : \A j \in 1..Len(recent_comps) :
            (\A k \in 1..Len(sales) : sales[k] # recent_comps[j])
              => RelevanceScore(sales[i], input_data) >= RelevanceScore(recent_comps[j], input_data)

\* The subject address of the request, when one is given
SubjectGiven == ~Falsy(input_data.subjectAddress)

\* The record's address has the normalized key of the subject address
HasSubjectKey(comp) == NormKeyOf(comp["address"]) = NormKeyOf(input_data.subjectAddress)

NotSubject(comp) == ~HasSubjectKey(comp)

\* C15: when subjectAddress is given no record of comparableSales has its
\* normalized key; the exclusion step removes no record with another key;
\* _is_same_address(a, b) is false when a or b is absent or empty and is
\* normalize(a) = normalize(b) otherwise (a pure function, compared on every
\* pair of input addresses in the first state of each run).
C15_SubjectExcluded ==
  /\ [](/\ (Written /\ Validated /\ SubjectGiven) =>
              \A i \in 1..Len(output[1].comparableSales) :
                 NotSubject(output[1].comparableSales[i])
        /\ pc = "read" =>
              \A a, b \in InputAddresses :
                 IsSameAddress(a, b) =
                   IF Falsy(a) \/ Falsy(b) THEN FALSE
                   ELSE NormKeyOf(a) = NormKeyOf(b))
  /\ [][(pc = "filtered" /\ pc' = "excluded") =>
          IF SubjectGiven
          THEN SelectSeq(recent_comps', NotSubject) = SelectSeq(recent_comps, NotSubject)
          ELSE recent_comps' = recent_comps]_vars

\* A run for the subject '123 Main St.' in which a record of '123 MAIN ST.'
\* was merged and kept by the recency filter, and the output holds the one other
\* record.
C15_Witness ==
  /\ Written /\ Validated
  /\ input_data.subjectAddress = <<"123 Main St.">>
  /\ \E i \in 1..Len(unique_comps) : unique_comps[i]["address"] = <<"123 MAIN ST.">>
  /\ Len(output[1].comparableSales) = 1
  /\ output[1].comparableSales[1]["address"] = <<"40 Oak Avenue">>

\* The characters the reference function replaces by a space
ListedSeparators == {".", ",", "#", "-", "/"}

RECURSIVE ReplaceListedSeparators(_)
ReplaceListedSeparators(s) ==
  IF s = "" THEN ""
  ELSE (IF Ch(s, 1) \in ListedSeparators THEN " " ELSE Ch(s, 1))
         \o ReplaceListedSeparators(Tail(s))

\* The reference function of C16: lowercase, the listed characters replaced
\* by spaces, the street-suffix words deleted as whole words, whitespace deleted.
ReferenceNormalize(address) ==
  IF address = <<>> \/ address = <<"">> THEN ""
  ELSE RemoveWhitespace(RemoveSuffixWords(ReplaceListedSeparators(Lower(address[1]))))

\* C16, as claimed: _normalize_address_for_dedup gives the empty string for
\* an absent or empty address and the reference function's key otherwise, so
\* the merge drops a record exactly when the reference key is empty.
C16_NormalizeIsReference ==
  Merged =>
    \A i \in 1..Len(all_comps) :
      /\ NormalizeAddressForDedup(all_comps[i]["address"])
           = ReferenceNormalize(all_comps[i]["address"])
      /\ (ReferenceNormalize(all_comps[i]["address"]) = "") = (unique_comps = <<>>)

\* The input document lacks one of the three required keys
MissingRequired ==
  /\ input_file = "ok"
  /\ \/ input_data.subjectCity = <<>>
     \/ input_data.subjectCounty = <<>>
     \/ input_data.subjectPropertyType = <<>>

\* No adapter task has run
NoAdapterInvoked ==
  /\ pc \notin {"gather", "collected", "merged", "filtered", "excluded", "ranked",
                "raised", "returned"}
  /\ \A i \in Adapters : ~finished[i] /\ results[i] = NoResult

\* C17: when subjectCity, subjectCounty or subjectPropertyType is missing no
\* adapter is ever invoked, the document written to the output file is
\* {comparableSales: [], searchSummary: 'Error: ...', error: true}, and the
\* process exits with a non-zero code.
C17_MissingFieldsRejected ==
  MissingRequired =>
    /\ NoAdapterInvoked
    /\ pc \in {"read", "validate", "exited"}
    /\ pc = "exited" =>
         /\ exit_code # <<>> /\ exit_code # <<0>>
         /\ output # <<>> =>
              /\ output[1].comparableSales = <<>>
              /\ StartsWith(output[1].searchSummary, "Error: ")
              /\ output[1].error = <<TRUE>>

\* A request without subjectCounty has ended: the error document is in the
\* output file and the exit code is 1.
C17_Witness ==
  /\ pc = "exited"
  /\ input_file = "ok"
  /\ input_data.subjectCounty = <<>>
  /\ output = <<MissingFieldsOutput>>
  /\ exit_code = <<1>>

\* subjectCity or subjectCounty is in the input document, as the empty text
EmptyCityOrCounty == input_data.subjectCity = <<"">> \/ input_data.subjectCounty = <<"">>

\* C18, as claimed: when subjectCity or subjectCounty is present but empty,
\* so that gather_comparable_sales rejects the request, the output document
\* has error = true and the process exits with a non-zero code.
C18_EmptyCityCountyIsError ==
  (pc = "exited" /\ Validated /\ EmptyCityOrCounty) =>
    /\ exit_code # <<0>>
    /\ output # <<>> => output[1].error = <<TRUE>>

\* Every scraper raises
AllAdaptersRaise == \A i \in Adapters : outcome[i].raises

\* C19 (Scenario C): when all four adapters raise for a valid request the
\* aggregation still completes and the output document has comparableSales =
\* [], error = false and a searchSummary that states 0 raw entries.
C19_AllAdaptersFail ==
  (Validated /\ ~EmptyCityOrCounty /\ AllAdaptersRaise) =>
    /\ pc # "raised" /\ raised = <<>>
    /\ Written =>
         /\ output[1].comparableSales = <<>>
         /\ output[1].error = <<FALSE>>
         /\ Contains(output[1].searchSummary, "Initial search yielded 0 raw entries.")

\* Such a run has ended with its document written.
C19_Witness ==
  /\ Written /\ Validated /\ AllAdaptersRaise
  /\ \A i \in Adapters : finished[i]
  /\ output[1].error = <<FALSE>>
  /\ output[1].comparableSales = <<>>

\* C20, as claimed: whenever gather_comparable_sales raises, main writes a
\* document with comparableSales empty, error = true and the exception
\* message in searchSummary, and the process ends with a non-zero exit code.
C20_GatherExceptionFails ==
  (pc = "exited" /\ raised # <<>>) =>
    /\ exit_code # <<0>>
    /\ output # <<>> =>
         /\ output[1].comparableSales = <<>>
         /\ output[1].error = <<TRUE>>
         /\ Contains(output[1].searchSummary, raised[1])

(***************************************************************************)
(* Output of every run, stage counts and timing                            *)
(***************************************************************************)

\* C21, as claimed: every run of the entry point, whatever failure occurs,
\* ends with a well-formed document written to the output path.  The formula
\* is about the runs in which no write to the output path was attempted and
\* failed: those whose input file could not be read.
C21_EveryRunWritesDocument ==
  (pc = "exited" /\ input_file # "ok") =>
    /\ output # <<>>
    /\ output[1].error \in {<<TRUE>>, <<FALSE>>}

\* The raw-record list as a function of what the scrapers handed over
RawInAdapterOrder == Returned(1) \o Returned(2) \o Returned(3) \o Returned(4)

\* The records left after merge, recency filter and subject exclusion, as a
\* function of the scrapers' outcomes and the request
ExcludedOf(raw) ==
  LET recent == FilterRecentSales(DeduplicateAndEnhance(raw), years_back, now)
  IN IF Falsy(input_data.subjectAddress) THEN recent
     ELSE SelectSeq(recent, LAMBDA c : NotSubject(c))

\* C22: in whatever order the four adapters complete, each result is held at
\* its adapter's position, so the raw-record list is the records of
\* MunicipalAssessor, RegistryOfDeeds, MassGIS and SERP in that order, and
\* the merged, filtered and ranked lists are functions of the adapters'
\* outcomes and the request alone.
C22_CompletionOrderIrrelevant ==
  /\ pc = "gather" =>
       \A i \in Adapters :
         results[i].value = IF finished[i] THEN Returned(i) ELSE <<>>
  /\ pc = "collected" => all_comps = RawInAdapterOrder
  /\ pc = "merged" => unique_comps = DeduplicateAndEnhance(RawInAdapterOrder)
  /\ pc = "filtered" =>
       recent_comps = FilterRecentSales(DeduplicateAndEnhance(RawInAdapterOrder),
                                        years_back, now)
  /\ pc = "excluded" => recent_comps = ExcludedOf(RawInAdapterOrder)
  /\ pc = "ranked" =>
       top_comps = Take(SortByRelevance(ExcludedOf(RawInAdapterOrder), input_data).value,
                        requested)

\* SERP has completed with records while MunicipalAssessor, which will hand
\* over records too, is still running.
C22_Witness ==
  /\ pc = "gather"
  /\ finished[4] /\ ~finished[1]
  /\ results[4].value = outcome[4].value /\ outcome[4].value # <<>>
  /\ ~outcome[1].raises /\ outcome[1].value # <<>>

\* The sort has returned a list: relevance_score returned for every record
Ranked == pc = "ranked"

\* confidenceScore is absent (read as 0.0) or lies in [0, 1]
ConfidenceInUnitInterval(comp) == Get(comp, "confidenceScore", 0) \in 0..100

\* C23, as claimed: for every record with confidenceScore in [0, 1] and every
\* subject property, the size and age terms lie in [0, 0.15] and the relevance
\* score the sort computed lies in [0, 1].
C23_ScoreInUnitInterval ==
  Ranked =>
    \A i \in 1..Len(recent_comps) :
      LET comp == recent_comps[i]
          one == 100 * ScoreScale(input_data)
      IN ConfidenceInUnitInterval(comp) =>
           /\ 100 * SizeTerm(comp, input_data) \in 0..(15 * ScoreScale(input_data))
           /\ 100 * AgeTerm(comp, input_data) \in 0..(15 * ScoreScale(input_data))
           /\ 100 * RelevanceScore(comp, input_data) \in 0..one

\* The size term as stated: 0.15 x max(0, 1 - 2 x |subjectSize - compSize| /
\* subjectSize) when both sizes are present and positive, else 0 (times
\* ScoreScale).
StatedSizeTerm(comp, inp) ==
  LET subject_size == SubjectSize(inp)
      comp_size == comp["buildingSizeSqFt"]
  IN IF subject_size # <<>> /\ comp_size # <<>> /\ subject_size[1] > 0 /\ comp_size[1] > 0
     THEN 150 * Max(0, subject_size[1] - 2 * Abs(subject_size[1] - comp_size[1]))
     ELSE 0

\* The age term as stated: 0.15 x max(0, 1 - |subjectYear - compYear| / 50)
\* when both years are present and compYear > 1800, else 0 (times ScoreScale).
StatedAgeTerm(comp, inp) ==
  LET subject_year == SubjectYear(inp)
      comp_year == comp["yearBuilt"]
  IN IF subject_year # <<>> /\ comp_year # <<>> /\ comp_year[1] > 1800
     THEN 3 * Max(0, 50 - Abs(subject_year[1] - comp_year[1])) * SizeDenominator(inp)
     ELSE 0

\* C24, as claimed: the size term and the age term of every score the sort
\* computed are the stated ones: added only when both sizes are present and
\* positive, respectively both years present and compYear > 1800, and
\* exactly 0 otherwise.
C24_TermsAsStated ==
  Ranked =>
    \A i \in 1..Len(recent_comps) :
      /\ SizeTerm(recent_comps[i], input_data) = StatedSizeTerm(recent_comps[i], input_data)
      /\ AgeTerm(recent_comps[i], input_data) = StatedAgeTerm(recent_comps[i], input_data)

\* The records the recency filter returns for the raw-record list
RecencyFiltered == FilterRecentSales(DeduplicateAndEnhance(all_comps), years_back, now)

\* C25, as claimed: the summary's raw and deduplicated counts are the sizes of
\* the raw-record list and of the merge output, and the number in 'Filtered
\* to N properties from the last ~3 years' is the number of records the
\* recency filter returned, before the subject property is excluded.
C25_SummaryCounts ==
  pc = "returned" =>
    LET summary == main_results[1].searchSummary
    IN /\ Contains(summary, "Initial search yielded " \o ToStr(Len(all_comps))
                              \o " raw entries.")
       /\ Contains(summary, "After deduplication & enhancement: "
                              \o ToStr(Len(DeduplicateAndEnhance(all_comps)))
                              \o " unique properties.")
       /\ Contains(summary, "Filtered to " \o ToStr(Len(RecencyFiltered))
                              \o " properties from the last ~3 years.")

\* C26: the merge step starts only after each of the four adapters has
\* returned or raised; an adapter that raised leaves every sibling still
\* running able to complete; and in a run where some adapter never completes
\* the fan-out never ends, so the aggregation produces no result.
C26_MergeWaitsForAllAdapters ==
  /\ [](Collected => \A i \in Adapters : finished[i])
  /\ [][pc = "gather" /\ pc' # "gather" => \A i \in Adapters : finished[i]]_vars
  /\ [](pc = "gather" =>
          \A i, j \in Adapters :
            (finished[i] /\ outcome[i].raises /\ ~finished[j]) =>
              ENABLED AdapterCompletes(j))
  /\ \A i \in Adapters :
       ([](pc # "rejected" /\ ~finished[i])) => [](~Collected /\ main_results = <<>>)

\* The merge has run after RegistryOfDeeds raised and every sibling completed,
\* one of them with records.
C26_Witness ==
  /\ pc = "merged"
  /\ \A i \in Adapters : finished[i]
  /\ outcome[2].raises
  /\ \E j \in Adapters : ~outcome[j].raises /\ outcome[j].value # <<>>
  /\ unique_comps # <<>>

(***************************************************************************)
(* RequestThrottler.wait() called by one coroutine, one call after the     *)
(* other, and by up to MaxCallers coroutines at once.                      *)
(***************************************************************************)

InitThrottle ==
  /\ pc = "gather"
  /\ input_data = ValidInput
  /\ now = Today
  /\ years_back = DefaultYearsBack
  /\ outcome = [i \in Adapters |-> NoRaise(<<>>)]
  /\ finished = [i \in Adapters |-> FALSE]
  /\ results = [i \in Adapters |-> NoResult]
  /\ all_comps = <<>>
  /\ unique_comps = <<>>
  /\ recent_comps = <<>>
  /\ MainIdle
  /\ clock \in 0..delay_seconds
  /\ ThrottlerNew

NextSequential ==
  \/ WaitBegin(1)
  \/ WaitWake(1)
  \/ Tick

SpecSequential == InitThrottle /\ [][NextSequential]_vars

NextConcurrent ==
  \/ \E t \in 1..MaxCallers : WaitBegin(t)
  \/ \E t \in 1..MaxCallers : WaitWake(t)
  \/ Tick

SpecConcurrent == InitThrottle /\ [][NextConcurrent]_vars

\* The time between the last two returns of wait()
LastGap == return_times[2] - return_times[1]

\* C27: with one caller whose calls follow one another, two consecutive
\* returns of wait() are at least delay_seconds apart, and a call that starts
\* delay_seconds or more after the previous return does not sleep.
C27_SequentialReturnsApart ==
  /\ [](Len(return_times) = 2 => LastGap >= delay_seconds)
  /\ [][(wait_pc[1] = "idle" /\ return_times # <<>>
           /\ clock - return_times[Len(return_times)] >= delay_seconds)
          => wait_pc'[1] = "idle"]_vars

\* A second call started one quarter after the first returned, slept, and
\* returned exactly delay_seconds after it.
C27_Witness ==
  /\ Len(return_times) = 2
  /\ LastGap = delay_seconds
  /\ last_request_time = return_times[2]
  /\ wait_pc[1] = "idle"

\* C28, as claimed: when callers are inside wait() at the same time, the
\* returns of any two calls are still at least delay_seconds apart.
C28_ConcurrentReturnsApart ==
  Len(return_times) = 2 => return_times[1] + delay_seconds <= return_times[2]

\* The raw records with the normalized address of comp
RawGroupOf(comp) ==
  {i \in 1..Len(all_comps) : NormKeyOf(all_comps[i]["address"]) = NormKeyOf(comp["address"])}

\* comp stems from a merge group of raw records: the group is not empty and
\* every data field comp holds is held, with that value, by a record of it
DerivesFromRaw(comp) ==
  /\ HasKey(comp)
  /\ RawGroupOf(comp) # {}
  /\ \A f \in DataFields :
       comp[f] # <<>> => \E i \in RawGroupOf(comp) : all_comps[i][f] = comp[f]

\* C29: stage by stage the lists never grow and hold no record the stage
\* before did not hold, and when the aggregation has returned raw count >=
\* merged count >= count after the recency filter >= count after subject
\* exclusion >= size of comparableSales, every record of which stems from a
\* merge group of raw records.
C29_StagesNeverGrow ==
  /\ pc = "merged" => Len(unique_comps) <= Len(all_comps)
  /\ pc = "filtered" =>
       /\ Len(recent_comps) <= Len(unique_comps)
       /\ Range(recent_comps) \subseteq Range(unique_comps)
  /\ pc = "excluded" =>
       /\ Len(recent_comps) <= Len(RecencyFiltered)
       /\ Range(recent_comps) \subseteq Range(unique_comps)
  /\ pc = "ranked" =>
       /\ Len(top_comps) <= Len(recent_comps)
       /\ Range(top_comps) \subseteq Range(recent_comps)
  /\ pc = "returned" =>
       LET comparableSales == main_results[1].comparableSales
       IN /\ Len(all_comps) >= Len(unique_comps)
          /\ Len(unique_comps) >= Len(RecencyFiltered)
          /\ Len(RecencyFiltered) >= Len(recent_comps)
          /\ Len(recent_comps) >= Len(comparableSales)
          /\ \A i \in 1..Len(comparableSales) : DerivesFromRaw(comparableSales[i])

\* An aggregation has returned in which the merge, the recency filter and
\* the subject exclusion each dropped a record.
C29_Witness ==
  /\ pc = "returned"
  /\ Len(all_comps) = 4 /\ Len(unique_comps) = 3
  /\ Len(RecencyFiltered) = 2 /\ Len(recent_comps) = 1
  /\ Len(main_results[1].comparableSales) = 1

\* C30: in the dictionary a completed aggregation returns, every record of
\* comparableSales without a saleDate has confidenceScore <= 0.3 and every
\* record whose saleDate does not parse has confidenceScore <= 0.4, records
\* merged from several sources included, and each record is as the recency
\* filter left it: no later stage changed its confidenceScore.
C30_UndatedCappedInOutput ==
  pc = "returned" =>
    LET comparableSales == main_results[1].comparableSales
    IN \A i \in 1..Len(comparableSales) :
         LET comp == comparableSales[i]
         IN /\ comp \in Range(RecencyFiltered)
            /\ comp["confidenceScore"] # <<>>
            /\ Falsy(comp["saleDate"]) => comp["confidenceScore"][1] <= 30
            /\ (~Falsy(comp["saleDate"]) /\ ParseDate(comp["saleDate"][1]) = <<>>) =>
                 comp["confidenceScore"][1] <= 40

\* The aggregation returned a record merged from two raw records of
\* different sources whose saleDate does not parse, with confidenceScore 0.4.
C30_Witness ==
  /\ pc = "returned"
  /\ \E i \in 1..Len(main_results[1].comparableSales) :
       LET comp == main_results[1].comparableSales[i]
       IN /\ Contains(SourceOf(comp), "Multiple Sources")
          /\ ~Falsy(comp["saleDate"]) /\ ParseDate(comp["saleDate"][1]) = <<>>
          /\ comp["confidenceScore"] = <<40>>
          /\ Cardinality(RawGroupOf(comp)) = 2
====
